---- MODULE Spec2Model ----
(***************************************************************************)
(* Verification model of the openai-tts relay:                             *)
(*   - RateLimiter (schedule / refillToken) with its 30 s refill timer     *)
(*   - splitTextIntoChunks                                                 *)
(*   - the /api/tts request handler (sequential chunk loop)                *)
(*   - the /text-to-speech request handler (Promise.all over processChunk) *)
(* Time is discrete; one time unit is 15 s, so the 30 s refill interval    *)
(* and the 30 s retry delay are 2 units and a minute is 4 units.           *)
(* Strings are sequences of one-character strings; error messages are      *)
(* sequences of words.  JavaScript indices are 0-based and are kept so.    *)
(***************************************************************************)
EXTENDS Integers, Sequences, FiniteSets, TLC

(* ---------------------------- bounds ----------------------------------- *)
\* number of callers of RateLimiter.schedule in the stand-alone limiter runs
NumTasks == 3
\* longest input text given to splitTextIntoChunks
MaxTextLen == 5
\* largest maxLength given to splitTextIntoChunks
MaxMaxLength == 3
\* longest request text of a /api/tts run
MaxReqLen == 3
\* longest request text of a /text-to-speech run
MaxT2sLen == 2
\* the handlers' per-call limit, standing in for MAX_TTS_LENGTH (4096)
TtsLimit == 1
\* the summarizer's input limit, standing in for MAX_SUMMARY_INPUT_LENGTH
SummaryLimit == 3
\* longest summary the summarizer returns
MaxSummaryLen == 1
\* callers of schedule in the burst runs
BurstTasks == 5
\* callers of RequestQueue.enqueue in the runs of the token-bucket variant
QueueTasks == 4
\* requests to /api/tts in the runs with overlapping jobs
NumJobs == 2
\* longest request text in the runs with overlapping jobs
MaxJobLen == 2
\* refill ticks followed in the runs that count them
MaxTicks == 3

(* ------------------------ program constants ---------------------------- *)
\* RATE_LIMIT.maxConcurrent
maxConcurrent == 2
\* RATE_LIMIT.refillIntervalMs = 30000 ms, in units of 15 s
RefillInterval == 2
\* setTimeout(resolve, 30000) before the retry, in units of 15 s
RetryDelay == 2
\* one minute, in units of 15 s
Minute == 4
\* RATE_LIMIT.tokensPerMinute: the provider's quota
tokensPerMinute == 3
\* the token-bucket variant: RATE_LIMIT.maxTokens
maxTokens == 3
\* the token-bucket variant: RATE_LIMIT.refillIntervalMs = 20000 ms, in
\* units of 10 s (the runs of this variant count time in units of 10 s)
refillIntervalMs == 2
\* one minute, in units of 10 s
BucketMinute == 6
\* the value of waitIn when no setTimeout of processQueue is pending
TimerOff == -1

(* ----------------------------- helpers --------------------------------- *)
Min(a, b) == IF a < b THEN a ELSE b

\* the characters the models draw texts from: a letter, a blank, two
\* sentence-terminal marks
Alphabet == {"a", " ", ".", "!"}

\* the character class [.!?]
IsSentenceEnd(c) == c \in {".", "!", "?"}

\* the character class \s
IsSpace(c) == c \in {" ", "\n", "\t", "\r"}

\* String.prototype.substring(from, to), 0-based, for from <= to <= length
Substring(s, from, to) == SubSeq(s, from + 1, to)

\* result of String.prototype.match when the pattern does not match
NoMatch == -1

\* s.match(/[.!?][^.!?]*$/).index : leftmost position of a sentence mark that
\* is followed, up to the end of s, by no sentence mark
SentenceEndMatch(s) ==
  LET M == {k \in 0..(Len(s) - 1) :
              /\ IsSentenceEnd(s[k + 1])
              /\ \A j \in (k + 1)..(Len(s) - 1) : ~IsSentenceEnd(s[j + 1])}
  IN IF M = {} THEN NoMatch ELSE CHOOSE k \in M : \A j \in M : k <= j

\* s.match(/\s[^\s]*$/).index : leftmost position of a whitespace that is
\* followed, up to the end of s, by no whitespace
LastSpaceMatch(s) ==
  LET M == {k \in 0..(Len(s) - 1) :
              /\ IsSpace(s[k + 1])
              /\ \A j \in (k + 1)..(Len(s) - 1) : ~IsSpace(s[j + 1])}
  IN IF M = {} THEN NoMatch ELSE CHOOSE k \in M : \A j \in M : k <= j

\* all texts over the characters A of length at most n
TextsOver(A, n) == UNION {[1..k -> A] : k \in 0..n}

\* concatenation of a sequence of sequences, in order
RECURSIVE Concat(_)
Concat(ss) == IF ss = <<>> THEN <<>> ELSE Head(ss) \o Concat(Tail(ss))

(* ----------------------- splitTextIntoChunks --------------------------- *)
\* endIndex when a window without a natural break is not cut at the limit
\* but runs on to the end of the unbroken token
ChunkEndIndexToTokenEnd(t, currentIndex, maxLen) ==
  LET endIndex == Min(currentIndex + maxLen, Len(t))
      window == Substring(t, currentIndex, endIndex)
      sentenceEndMatch == SentenceEndMatch(window)
      lastSpaceMatch == LastSpaceMatch(window)
      tokenEnds == {p \in endIndex..Len(t) : p = Len(t) \/ IsSpace(t[p + 1])}
  IN IF endIndex < Len(t)
       THEN IF sentenceEndMatch # NoMatch
              THEN currentIndex + sentenceEndMatch + 1
              ELSE IF lastSpaceMatch # NoMatch
                     THEN currentIndex + lastSpaceMatch
                     ELSE CHOOSE p \in tokenEnds : \A q \in tokenEnds : p <= q
       ELSE endIndex

\* endIndex when the word boundary is tried before the sentence boundary
ChunkEndIndexSpaceFirst(t, currentIndex, maxLen) ==
  LET endIndex == Min(currentIndex + maxLen, Len(t))
      window == Substring(t, currentIndex, endIndex)
      sentenceEndMatch == SentenceEndMatch(window)
      lastSpaceMatch == LastSpaceMatch(window)
  IN IF endIndex < Len(t)
       THEN IF lastSpaceMatch # NoMatch
              THEN currentIndex + lastSpaceMatch
              ELSE IF sentenceEndMatch # NoMatch
                     THEN currentIndex + sentenceEndMatch + 1
                     ELSE endIndex
       ELSE endIndex

\* endIndex when a natural break is looked for in the last window too
ChunkEndIndexAlwaysBreaks(t, currentIndex, maxLen) ==
  LET endIndex == Min(currentIndex + maxLen, Len(t))
      window == Substring(t, currentIndex, endIndex)
      sentenceEndMatch == SentenceEndMatch(window)
      lastSpaceMatch == LastSpaceMatch(window)
  IN IF sentenceEndMatch # NoMatch
       THEN currentIndex + sentenceEndMatch + 1
       ELSE IF lastSpaceMatch # NoMatch
              THEN currentIndex + lastSpaceMatch
              ELSE endIndex

\* the value of endIndex at the end of one iteration of the while loop
ChunkEndIndex(t, currentIndex, maxLen) ==
  LET endIndex == Min(currentIndex + maxLen, Len(t))
      window == Substring(t, currentIndex, endIndex)
      sentenceEndMatch == SentenceEndMatch(window)
      lastSpaceMatch == LastSpaceMatch(window)
  IN IF endIndex < Len(t)
       THEN IF sentenceEndMatch # NoMatch
              THEN currentIndex + sentenceEndMatch + 1
              ELSE IF lastSpaceMatch # NoMatch
                     THEN currentIndex + lastSpaceMatch
                     ELSE endIndex
       ELSE endIndex

\* the chunk pushed by one iteration, with its leading whitespace dropped
TrimmedChunkOf(t, currentIndex, endIndex) ==
  IF currentIndex < endIndex /\ IsSpace(t[currentIndex + 1])
    THEN Substring(t, currentIndex + 1, endIndex)
    ELSE Substring(t, currentIndex, endIndex)

\* the chunk pushed by one iteration: text.substring(currentIndex, endIndex)
ChunkOf(t, currentIndex, endIndex) == Substring(t, currentIndex, endIndex)

\* splitTextIntoChunks as a whole, for the callers that run it in one
\* synchronous block.  An iteration that does not advance the cursor repeats
\* for ever (the array grows until the process dies): "diverges".
RECURSIVE SplitFrom(_, _, _, _)
SplitFrom(t, maxLen, currentIndex, acc) ==
  IF ~(currentIndex < Len(t))
    THEN [diverges |-> FALSE, chunks |-> acc]
    ELSE LET endIndex == ChunkEndIndex(t, currentIndex, maxLen)
         IN IF endIndex = currentIndex
              THEN [diverges |-> TRUE, chunks |-> acc]
              ELSE SplitFrom(t, maxLen, endIndex,
                             Append(acc, ChunkOf(t, currentIndex, endIndex)))

splitTextIntoChunks(t, maxLen) == SplitFrom(t, maxLen, 0, <<>>)

(* ------------------------------ errors --------------------------------- *)
\* String.prototype.includes on messages, word-wise
Includes(msg, pat) ==
  \E k \in 1..(Len(msg) - Len(pat) + 1) : SubSeq(msg, k, k + Len(pat) - 1) = pat

\* provider errors: message, and whether the error carries response.data
\* (with response.status)
ErrRateLimit ==
  [message |-> <<"Rate", "limit", "reached", "for", "tts-1">>,
   hasResponse |-> TRUE, status |-> 429]
\* a rate-limit error of the provider in other words
ErrRateLimitExceeded ==
  [message |-> <<"Rate", "limit", "exceeded", "for", "tts-1">>,
   hasResponse |-> TRUE, status |-> 429]
ErrInvalidKey ==
  [message |-> <<"Incorrect", "API", "key", "invalid_api_key">>,
   hasResponse |-> TRUE, status |-> 401]
ErrNetwork ==
  [message |-> <<"Connection", "error">>, hasResponse |-> FALSE, status |-> 0]
\* an error whose message is empty or missing
ErrNoMessage == [message |-> <<>>, hasResponse |-> FALSE, status |-> 0]

\* outcomes of one invocation of a scheduled task
Ok == [ok |-> TRUE, error |-> ErrNoMessage]
Failed(e) == [ok |-> FALSE, error |-> e]
LimiterOutcomes ==
  {Ok, Failed(ErrRateLimit), Failed(ErrNetwork), Failed(ErrNoMessage)}

\* a classifier that takes every error for a rate-limit error
IsAnyError(e) == TRUE

\* a classifier that takes no error for a rate-limit error
IsNoError(e) == FALSE

\* error.message && error.message.includes('Rate limit reached')
IsRateLimitError(e) ==
  e.message # <<>> /\ Includes(e.message, <<"Rate", "limit", "reached">>)

\* how a promise returned by schedule is settled: by which attempt, and with
\* what (the attempt's value, or the attempt's error)
Pending == [state |-> "pending", attempt |-> 0, error |-> ErrNoMessage]
Fulfilled(attempt) ==
  [state |-> "fulfilled", attempt |-> attempt, error |-> ErrNoMessage]
Rejected(attempt, e) == [state |-> "rejected", attempt |-> attempt, error |-> e]

(* ------------------------------ state ---------------------------------- *)
VARIABLES
  \* RateLimiter fields
  availableTokens, activeRequests, pendingRequests,
  \* per caller of schedule: where its call stands, which branch of schedule
  \* it took, how often its task function was invoked, how its promise settled
  pc, path, invocations, settled,
  \* per caller, the outcomes of the invocations of its task so far
  outcomes,
  \* time to the next setInterval tick; per caller, time left of the retry delay
  refillIn, retryIn,
  \* an observer of the outbound call rate: whether it is switched on, and
  \* recentStarts[a], the number of task invocations started a time units ago
  watchStarts, recentStarts,
  \* an observer of the refill timer: whether it is switched on, and the
  \* number of setInterval callbacks run so far
  watchTicks, ticks,
  \* splitTextIntoChunks: arguments, locals, position
  text, maxLength, chunks, currentIndex, splitPc,
  \* one conversion request: its body, and where its handler stands
  request, hpc,
  \* the module-level client (the API key it was built with) and status record
  openai, processingStatus,
  \* the handler's locals: working text, chunks, loop index, collected buffers
  textToProcess, jobChunks, loopIndex, audioBuffers,
  \* the HTTP response sent, and the texts sent to the summarizer
  response, summaryCalls,
  \* the callers whose promises were fulfilled, in the order of fulfilment
  completionOrder,
  \* in the runs with several requests: the synthesis calls made, each with
  \* the request whose handler made it and the API key of the client used
  speechCalls,
  \* the token-bucket variant: TokenBucket.tokens, the time since
  \* lastRefillTimestamp, RequestQueue.queue and .processing
  tokens, sinceLastRefill, queue, processing,
  \* per caller of enqueue, where its task stands; the time left of the
  \* setTimeout of processQueue; startsAgo[a], the number of tasks started
  \* a time units ago
  qpc, waitIn, startsAgo

rlVars == <<availableTokens, activeRequests, pendingRequests, pc, path,
            invocations, settled, outcomes, refillIn, retryIn, watchStarts,
            recentStarts, watchTicks, ticks>>
splitVars == <<text, maxLength, chunks, currentIndex, splitPc>>
jobVars == <<request, hpc, openai, processingStatus, textToProcess, jobChunks,
             loopIndex, audioBuffers, response, summaryCalls, completionOrder,
             speechCalls>>
bucketVars == <<tokens, sinceLastRefill, queue, processing, qpc, waitIn,
               startsAgo>>
vars == <<rlVars, splitVars, jobVars, bucketVars>>

\* the callers of schedule
Tasks == DOMAIN pc

(* ----------------------- status record, responses ---------------------- *)
\* a currentStatus label, with the numbers its template interpolates
Status3(label, a, b, c) == [label |-> label, a |-> a, b |-> b, c |-> c]
Status(label, a, b) == Status3(label, a, b, 0)

\* the initial processingStatus
IdleStatus ==
  [currentStatus |-> Status("Idle", 0, 0), summaryProgress |-> 0,
   totalChunks |-> 0, processedChunks |-> 0, queuedChunks |-> 0]

\* no response sent yet
NoResponse ==
  [kind |-> "none", status |-> 0, audio |-> <<>>, fields |-> {},
   error |-> "", code |-> 0, type |-> "", chunk |-> 0, totalChunks |-> 0]

\* res.send(buffer) with Content-Type audio/mpeg
AudioResponse(bytes) ==
  [kind |-> "audio", status |-> 200, audio |-> bytes, fields |-> {},
   error |-> "", code |-> 0, type |-> "", chunk |-> 0, totalChunks |-> 0]

\* res.status(400).json({ error })
ErrorOnlyResponse(status, error) ==
  [kind |-> "json", status |-> status, audio |-> <<>>, fields |-> {"error"},
   error |-> error, code |-> 0, type |-> "", chunk |-> 0, totalChunks |-> 0]

\* the audio the speech provider returns for a text: one sample per character
Synthesize(chunk) == [j \in 1..Len(chunk) |-> <<"pcm", chunk[j]>>]

\* concatAudioBuffers: Buffer.concat(buffers, totalLength)
concatAudioBuffers(buffers) == Concat(buffers)

(* ---------------------------- RateLimiter ------------------------------ *)
\* the limiter's bookkeeping when none of the callers T has called schedule
\* and no earlier call is unsettled
RateLimiterIdle(T, watch) ==
  /\ activeRequests = 0
  /\ pendingRequests = <<>>
  /\ pc = [t \in T |-> "idle"]
  /\ path = [t \in T |-> "none"]
  /\ invocations = [t \in T |-> 0]
  /\ settled = [t \in T |-> Pending]
  /\ outcomes = [t \in T |-> <<>>]
  /\ refillIn \in 0..RefillInterval
  /\ retryIn = [t \in T |-> 0]
  /\ watchStarts = watch
  /\ ticks = 0
  /\ recentStarts = [a \in 0..(Minute - 1) |-> 0]

\* constructor(maxConcurrent), and none of the callers T has called schedule
RateLimiterInit(T, watch) ==
  /\ availableTokens = maxConcurrent
  /\ RateLimiterIdle(T, watch)
  /\ refillIn = RefillInterval
  /\ watchTicks = FALSE

\* fn() is called for caller t: one more task invocation starts now
Invoke(t) ==
  /\ invocations' = [invocations EXCEPT ![t] = @ + 1]
  /\ recentStarts' = IF watchStarts
                       THEN [recentStarts EXCEPT ![0] = @ + 1]
                       ELSE recentStarts

\* schedule(fn) with the token test off by one: a caller is started when
\* the pool is empty too
ScheduleAtZeroTokens(t) ==
  /\ pc[t] = "idle"
  /\ \A u \in Tasks : u < t => pc[u] # "idle"
  /\ IF availableTokens >= 0
       THEN /\ availableTokens' = availableTokens - 1
            /\ activeRequests' = activeRequests + 1
            /\ pc' = [pc EXCEPT ![t] = "running"]
            /\ path' = [path EXCEPT ![t] = "immediate"]
            /\ Invoke(t)
            /\ UNCHANGED pendingRequests
       ELSE /\ pendingRequests' = Append(pendingRequests, t)
            /\ pc' = [pc EXCEPT ![t] = "queued"]
            /\ path' = [path EXCEPT ![t] = "queued"]
            /\ UNCHANGED <<availableTokens, activeRequests, invocations,
                           recentStarts>>
  /\ UNCHANGED <<settled, outcomes, refillIn, retryIn, watchStarts,
                 watchTicks, ticks>>

\* schedule(fn) called by caller t; callers are numbered in the order of
\* their calls
Schedule(t) ==
  /\ pc[t] = "idle"
  /\ \A u \in Tasks : u < t => pc[u] # "idle"
  /\ IF availableTokens > 0
       THEN /\ availableTokens' = availableTokens - 1
            /\ activeRequests' = activeRequests + 1
            /\ pc' = [pc EXCEPT ![t] = "running"]
            /\ path' = [path EXCEPT ![t] = "immediate"]
            /\ Invoke(t)
            /\ UNCHANGED pendingRequests
       ELSE /\ pendingRequests' = Append(pendingRequests, t)
            /\ pc' = [pc EXCEPT ![t] = "queued"]
            /\ path' = [path EXCEPT ![t] = "queued"]
            /\ UNCHANGED <<availableTokens, activeRequests, invocations,
                           recentStarts>>
  /\ UNCHANGED <<settled, outcomes, refillIn, retryIn, watchStarts,
                 watchTicks, ticks>>

\* the setInterval callback taking the request that was queued last
\* (pendingRequests.pop() in place of shift())
RefillTokenFromTail ==
  /\ refillIn = 0
  /\ watchTicks => ticks < MaxTicks
  /\ refillIn' = RefillInterval
  /\ ticks' = IF watchTicks THEN ticks + 1 ELSE ticks
  /\ IF Len(pendingRequests) > 0 /\ availableTokens < maxConcurrent
       THEN LET nextRequest == pendingRequests[Len(pendingRequests)]
            IN /\ pendingRequests' =
                    SubSeq(pendingRequests, 1, Len(pendingRequests) - 1)
               /\ activeRequests' = activeRequests + 1
               /\ pc' = [pc EXCEPT ![nextRequest] = "running"]
               /\ Invoke(nextRequest)
               /\ UNCHANGED availableTokens
       ELSE /\ availableTokens' = Min(maxConcurrent, availableTokens + 1)
            /\ UNCHANGED <<activeRequests, pendingRequests, pc, invocations,
                           recentStarts>>
  /\ UNCHANGED <<path, settled, outcomes, retryIn, watchStarts,
                 watchTicks>>

\* the setInterval callback that only refills the pool and leaves the
\* waiting requests where they are
RefillTokenOnlyRefills ==
  /\ refillIn = 0
  /\ watchTicks => ticks < MaxTicks
  /\ refillIn' = RefillInterval
  /\ ticks' = IF watchTicks THEN ticks + 1 ELSE ticks
  /\ availableTokens' = Min(maxConcurrent, availableTokens + 1)
  /\ UNCHANGED <<activeRequests, pendingRequests, pc, invocations,
                 recentStarts>>
  /\ UNCHANGED <<path, settled, outcomes, retryIn, watchStarts,
                 watchTicks>>

\* the setInterval callback starting a waiting request only when the pool
\* holds a token (availableTokens > 0 in place of < maxConcurrent)
RefillTokenNeedsToken ==
  /\ refillIn = 0
  /\ watchTicks => ticks < MaxTicks
  /\ refillIn' = RefillInterval
  /\ ticks' = IF watchTicks THEN ticks + 1 ELSE ticks
  /\ IF Len(pendingRequests) > 0 /\ availableTokens > 0
       THEN LET nextRequest == Head(pendingRequests)
            IN /\ pendingRequests' = Tail(pendingRequests)
               /\ activeRequests' = activeRequests + 1
               /\ pc' = [pc EXCEPT ![nextRequest] = "running"]
               /\ Invoke(nextRequest)
               /\ UNCHANGED availableTokens
       ELSE /\ availableTokens' = Min(maxConcurrent, availableTokens + 1)
            /\ UNCHANGED <<activeRequests, pendingRequests, pc, invocations,
                           recentStarts>>
  /\ UNCHANGED <<path, settled, outcomes, retryIn, watchStarts,
                 watchTicks>>

\* the setInterval callback adding a token without the Math.min
RefillTokenUncapped ==
  /\ refillIn = 0
  /\ watchTicks => ticks < MaxTicks
  /\ refillIn' = RefillInterval
  /\ ticks' = IF watchTicks THEN ticks + 1 ELSE ticks
  /\ IF Len(pendingRequests) > 0 /\ availableTokens < maxConcurrent
       THEN LET nextRequest == Head(pendingRequests)
            IN /\ pendingRequests' = Tail(pendingRequests)
               /\ activeRequests' = activeRequests + 1
               /\ pc' = [pc EXCEPT ![nextRequest] = "running"]
               /\ Invoke(nextRequest)
               /\ UNCHANGED availableTokens
       ELSE /\ availableTokens' = availableTokens + 1
            /\ UNCHANGED <<activeRequests, pendingRequests, pc, invocations,
                           recentStarts>>
  /\ UNCHANGED <<path, settled, outcomes, retryIn, watchStarts,
                 watchTicks>>

\* the setInterval callback adding a token on every tick, also on a tick
\* that starts a waiting request
RefillTokenAlwaysAdds ==
  /\ refillIn = 0
  /\ watchTicks => ticks < MaxTicks
  /\ refillIn' = RefillInterval
  /\ ticks' = IF watchTicks THEN ticks + 1 ELSE ticks
  /\ availableTokens' = Min(maxConcurrent, availableTokens + 1)
  /\ IF Len(pendingRequests) > 0
       THEN LET nextRequest == Head(pendingRequests)
            IN /\ pendingRequests' = Tail(pendingRequests)
               /\ activeRequests' = activeRequests + 1
               /\ pc' = [pc EXCEPT ![nextRequest] = "running"]
               /\ Invoke(nextRequest)
       ELSE UNCHANGED <<activeRequests, pendingRequests, pc, invocations,
                        recentStarts>>
  /\ UNCHANGED <<path, settled, outcomes, retryIn, watchStarts,
                 watchTicks>>

\* the setInterval callback
RefillToken ==
  /\ refillIn = 0
  /\ watchTicks => ticks < MaxTicks
  /\ refillIn' = RefillInterval
  /\ ticks' = IF watchTicks THEN ticks + 1 ELSE ticks
  /\ IF Len(pendingRequests) > 0 /\ availableTokens < maxConcurrent
       THEN LET nextRequest == Head(pendingRequests)
            IN /\ pendingRequests' = Tail(pendingRequests)
               /\ activeRequests' = activeRequests + 1
               /\ pc' = [pc EXCEPT ![nextRequest] = "running"]
               /\ Invoke(nextRequest)
               /\ UNCHANGED availableTokens
       ELSE /\ availableTokens' = Min(maxConcurrent, availableTokens + 1)
            /\ UNCHANGED <<activeRequests, pendingRequests, pc, invocations,
                           recentStarts>>
  /\ UNCHANGED <<path, settled, outcomes, retryIn, watchStarts,
                 watchTicks>>

\* what schedule does when an invocation of fn fails with error e after
\* `attempt` invocations: "retry" (wait, then call fn again) or "throw"
OnErrorRetryAlways(attempt, e) ==
  IF IsRateLimitError(e) THEN "retry" ELSE "throw"

OnError(attempt, e) ==
  IF attempt = 1 /\ IsRateLimitError(e) THEN "retry" ELSE "throw"

\* return await fn() / resolve(result): the promise takes the value of the
\* attempt that succeeded
SettleWithValue(attempt) == Fulfilled(attempt)

\* the error of the last attempt is caught and logged and not thrown on:
\* the promise is fulfilled (with undefined)
SettleWithErrorSwallowed(attempt, e) == Fulfilled(attempt)

\* throw error / reject(error) / reject(retryError): the promise takes the
\* error of the attempt that failed last
SettleWithError(attempt, e) == Rejected(attempt, e)

\* the try / catch / finally of the immediate branch of schedule, from the
\* point where an invocation of fn (the first one, or the retry) settles
ImmediateAttemptSettles(t, o) ==
  LET attempt == invocations[t]
  IN IF o.ok
       THEN /\ settled' = [settled EXCEPT ![t] = SettleWithValue(attempt)]
            /\ activeRequests' = activeRequests - 1
            /\ pc' = [pc EXCEPT ![t] = "resolved"]
            /\ UNCHANGED retryIn
       ELSE IF OnError(attempt, o.error) = "retry"
              THEN /\ retryIn' = [retryIn EXCEPT ![t] = RetryDelay]
                   /\ pc' = [pc EXCEPT ![t] = "waiting"]
                   /\ UNCHANGED <<settled, activeRequests>>
              ELSE /\ settled' = [settled EXCEPT ![t] =
                                    SettleWithError(attempt, o.error)]
                   /\ activeRequests' = activeRequests - 1
                   /\ pc' = [pc EXCEPT ![t] = "rejected"]
                   /\ UNCHANGED retryIn

\* the queued closure with the decrement at the end of the try block in
\* place of the finally: a rejected request keeps its count
QueuedAttemptSettlesNoFinally(t, o) ==
  LET attempt == invocations[t]
  IN IF o.ok
       THEN /\ settled' = [settled EXCEPT ![t] = SettleWithValue(attempt)]
            /\ activeRequests' = activeRequests - 1
            /\ pc' = [pc EXCEPT ![t] = "resolved"]
            /\ UNCHANGED retryIn
       ELSE IF OnError(attempt, o.error) = "retry"
              THEN /\ retryIn' = [retryIn EXCEPT ![t] = RetryDelay]
                   /\ pc' = [pc EXCEPT ![t] = "waiting"]
                   /\ UNCHANGED <<settled, activeRequests>>
              ELSE /\ settled' = [settled EXCEPT ![t] =
                                    SettleWithError(attempt, o.error)]
                   /\ pc' = [pc EXCEPT ![t] = "rejected"]
                   /\ UNCHANGED <<retryIn, activeRequests>>

\* the try / catch / finally of the queued closure, from the point where an
\* invocation of fn (the first one, or the retry) settles
QueuedAttemptSettles(t, o) ==
  LET attempt == invocations[t]
  IN IF o.ok
       THEN /\ settled' = [settled EXCEPT ![t] = SettleWithValue(attempt)]
            /\ activeRequests' = activeRequests - 1
            /\ pc' = [pc EXCEPT ![t] = "resolved"]
            /\ UNCHANGED retryIn
       ELSE IF OnError(attempt, o.error) = "retry"
              THEN /\ retryIn' = [retryIn EXCEPT ![t] = RetryDelay]
                   /\ pc' = [pc EXCEPT ![t] = "waiting"]
                   /\ UNCHANGED <<settled, activeRequests>>
              ELSE /\ settled' = [settled EXCEPT ![t] =
                                    SettleWithError(attempt, o.error)]
                   /\ activeRequests' = activeRequests - 1
                   /\ pc' = [pc EXCEPT ![t] = "rejected"]
                   /\ UNCHANGED retryIn

\* an invocation settles and a settled call gives its token back to the pool
AttemptSettlesReturnsToken(t, o) ==
  /\ pc[t] \in {"running", "retrying"}
  /\ outcomes' = [outcomes EXCEPT ![t] = Append(@, o)]
  /\ IF path[t] = "immediate"
       THEN ImmediateAttemptSettles(t, o)
       ELSE QueuedAttemptSettles(t, o)
  /\ availableTokens' =
       IF settled'[t].state # "pending"
         THEN Min(maxConcurrent, availableTokens + 1)
         ELSE availableTokens
  /\ UNCHANGED <<pendingRequests, path, invocations,
                 refillIn, watchStarts, recentStarts, watchTicks, ticks>>

\* an invocation of caller t's task settles with outcome o
AttemptSettles(t, o) ==
  /\ pc[t] \in {"running", "retrying"}
  /\ outcomes' = [outcomes EXCEPT ![t] = Append(@, o)]
  /\ IF path[t] = "immediate"
       THEN ImmediateAttemptSettles(t, o)
       ELSE QueuedAttemptSettles(t, o)
  /\ UNCHANGED <<availableTokens, pendingRequests, path, invocations,
                 refillIn, watchStarts, recentStarts, watchTicks, ticks>>

\* the setTimeout of the retry delay fires: fn() is called once more
RetryFires(t) ==
  /\ pc[t] = "waiting"
  /\ retryIn[t] = 0
  /\ pc' = [pc EXCEPT ![t] = "retrying"]
  /\ Invoke(t)
  /\ UNCHANGED <<availableTokens, activeRequests, pendingRequests, path,
                 settled, outcomes, refillIn, retryIn, watchStarts,
                 watchTicks, ticks>>

\* one time unit passes; no timer is overdue
TimePasses ==
  /\ refillIn > 0
  /\ \A t \in Tasks : pc[t] = "waiting" => retryIn[t] > 0
  /\ refillIn' = refillIn - 1
  /\ retryIn' = [t \in Tasks |-> IF pc[t] = "waiting" THEN retryIn[t] - 1 ELSE 0]
  /\ recentStarts' = IF watchStarts
                       THEN [a \in 0..(Minute - 1) |->
                               IF a = 0 THEN 0 ELSE recentStarts[a - 1]]
                       ELSE recentStarts
  /\ UNCHANGED <<availableTokens, activeRequests, pendingRequests, pc, path,
                 invocations, settled, outcomes, watchStarts,
                 watchTicks, ticks>>

\* the variables of splitTextIntoChunks and of the request handlers in the
\* runs that do not use them
SplitUnused ==
  /\ text = <<>> /\ maxLength = 1 /\ chunks = <<>> /\ currentIndex = 0
  /\ splitPc = "unused"

JobUnused ==
  /\ request = [text |-> <<>>, apiKey |-> "", useSummary |-> FALSE]
  /\ hpc = "unused"
  /\ openai = ""
  /\ processingStatus = IdleStatus
  /\ textToProcess = <<>> /\ jobChunks = <<>> /\ loopIndex = 0
  /\ audioBuffers = <<>>
  /\ response = NoResponse
  /\ summaryCalls = <<>>
  /\ completionOrder = <<>>
  /\ speechCalls = {}

(* ------------- token-bucket variant: TokenBucket, RequestQueue --------- *)
\* the variables of the token-bucket variant in the runs of the other code
BucketUnused ==
  /\ tokens = maxTokens /\ sinceLastRefill = 0
  /\ queue = <<>> /\ processing = FALSE
  /\ qpc = <<>> /\ waitIn = TimerOff
  /\ startsAgo = [a \in 0..(BucketMinute - 1) |-> 0]

\* new RequestQueue() with its new TokenBucket, and none of the callers T
\* has called enqueue
RequestQueueInit(T) ==
  /\ tokens = maxTokens /\ sinceLastRefill = 0
  /\ queue = <<>> /\ processing = FALSE
  /\ qpc = [t \in T |-> "idle"]
  /\ waitIn = TimerOff
  /\ startsAgo = [a \in 0..(BucketMinute - 1) |-> 0]

\* the callers of enqueue
QueueCallers == DOMAIN qpc

\* elapsed times beyond this one fill the bucket all the same
FullAfter == maxTokens * refillIntervalMs

\* TokenBucket.refill: the bucket's tokens and the time since
\* lastRefillTimestamp after the call
Refill ==
  LET tokensToAdd == sinceLastRefill \div refillIntervalMs
  IN IF tokensToAdd > 0
       THEN [tokens |-> Min(maxTokens, tokens + tokensToAdd), since |-> 0]
       ELSE [tokens |-> tokens, since |-> sinceLastRefill]

\* TokenBucket.getNextRefillTime for a bucket without a token:
\* Math.ceil(1 / refillRate)
GetNextRefillTime == refillIntervalMs

\* processQueue, called when the queue is q and the callers stand at en, up
\* to its await of the task it starts, to its setTimeout, or to its return
ProcessQueue(q, en) ==
  IF q = <<>>
    THEN /\ processing' = FALSE
         /\ queue' = q /\ qpc' = en
         /\ waitIn' = TimerOff
         /\ UNCHANGED <<tokens, sinceLastRefill, startsAgo>>
    ELSE /\ processing' = TRUE
         /\ sinceLastRefill' = Refill.since
         /\ IF Refill.tokens >= 1
              THEN /\ tokens' = Refill.tokens - 1
                   /\ queue' = Tail(q)
                   /\ qpc' = [en EXCEPT ![Head(q)] = "running"]
                   /\ startsAgo' = [startsAgo EXCEPT ![0] = @ + 1]
                   /\ waitIn' = TimerOff
              ELSE /\ tokens' = Refill.tokens
                   /\ queue' = q /\ qpc' = en
                   /\ waitIn' = GetNextRefillTime
                   /\ UNCHANGED startsAgo

\* enqueue(task) by caller t; callers are numbered in the order of their calls
Enqueue(t) ==
  /\ qpc[t] = "idle"
  /\ \A u \in QueueCallers : u < t => qpc[u] # "idle"
  /\ LET q == Append(queue, t)
         en == [qpc EXCEPT ![t] = "queued"]
     IN IF ~processing
          THEN ProcessQueue(q, en)
          ELSE /\ queue' = q /\ qpc' = en
               /\ UNCHANGED <<tokens, sinceLastRefill, processing, waitIn,
                              startsAgo>>

\* the task of caller t settles, and processQueue is called again at the
\* end of the try block only: after a rejection the queue stands still
QueueTaskSettlesStopsOnError(t, o) ==
  /\ qpc[t] = "running"
  /\ IF o.ok
       THEN ProcessQueue(queue, [qpc EXCEPT ![t] = "resolved"])
       ELSE /\ qpc' = [qpc EXCEPT ![t] = "rejected"]
            /\ UNCHANGED <<tokens, sinceLastRefill, queue, processing, waitIn,
                           startsAgo>>

\* the task of caller t settles with outcome o: resolve or reject, and the
\* finally block calls processQueue
QueueTaskSettles(t, o) ==
  /\ qpc[t] = "running"
  /\ ProcessQueue(queue,
                  [qpc EXCEPT ![t] = IF o.ok THEN "resolved" ELSE "rejected"])

\* the setTimeout callback of processQueue
QueueTimerFires ==
  /\ waitIn = 0
  /\ ProcessQueue(queue, qpc)

\* one unit of time (10 s) passes; a timer that is due fires first
QueueTimePasses ==
  /\ waitIn # 0
  /\ sinceLastRefill' = Min(FullAfter, sinceLastRefill + 1)
  /\ waitIn' = IF waitIn > 0 THEN waitIn - 1 ELSE waitIn
  /\ startsAgo' = [a \in 0..(BucketMinute - 1) |->
                     IF a = 0 THEN 0 ELSE startsAgo[a - 1]]
  /\ UNCHANGED <<tokens, queue, processing, qpc>>

InitQueue ==
  /\ RequestQueueInit(1..QueueTasks)
  /\ RateLimiterInit(1..0, FALSE)
  /\ SplitUnused /\ JobUnused

QueueOutcomes == {Ok, Failed(ErrNetwork)}

CallerEnqueues ==
  \E t \in QueueCallers : Enqueue(t) /\ UNCHANGED <<rlVars, splitVars, jobVars>>
QueueTaskEnds ==
  \E t \in QueueCallers, o \in QueueOutcomes :
    QueueTaskSettles(t, o) /\ UNCHANGED <<rlVars, splitVars, jobVars>>
QueueTimer == QueueTimerFires /\ UNCHANGED <<rlVars, splitVars, jobVars>>
QueueClock == QueueTimePasses /\ UNCHANGED <<rlVars, splitVars, jobVars>>

NextQueue ==
  \/ CallerEnqueues
  \/ QueueTaskEnds
  \/ QueueTimer
  \/ QueueClock

SpecQueue == InitQueue /\ [][NextQueue]_vars

\* the same queue when time goes on, the setTimeout callback runs when it
\* is due and the remote call of every started task answers
QueueTaskEventuallyEnds(t) ==
  \E o \in QueueOutcomes :
    QueueTaskSettles(t, o) /\ UNCHANGED <<rlVars, splitVars, jobVars>>

QueueFairness ==
  /\ WF_vars(QueueTimer)
  /\ WF_vars(QueueClock)
  /\ \A t \in 1..QueueTasks : WF_vars(QueueTaskEventuallyEnds(t))

SpecQueueLive == InitQueue /\ [][NextQueue]_vars /\ QueueFairness

(* ------------------- stand-alone limiter: any callers ------------------ *)
Init ==
  /\ RateLimiterInit(1..NumTasks, FALSE)
  /\ SplitUnused /\ JobUnused /\ BucketUnused

CallerSchedules == \E t \in Tasks : Schedule(t)
    /\ UNCHANGED <<bucketVars, splitVars, jobVars>>
Tick == RefillToken /\ UNCHANGED <<bucketVars, splitVars, jobVars>>
TaskSettles ==
  \E t \in Tasks, o \in LimiterOutcomes :
    AttemptSettles(t, o) /\ UNCHANGED <<bucketVars, splitVars, jobVars>>
RetryTimer == \E t \in Tasks : RetryFires(t)
    /\ UNCHANGED <<bucketVars, splitVars, jobVars>>
Clock == TimePasses /\ UNCHANGED <<bucketVars, splitVars, jobVars>>

Next ==
  \/ CallerSchedules
  \/ Tick
  \/ TaskSettles
  \/ RetryTimer
  \/ Clock

Spec == Init /\ [][Next]_vars

\* the same limiter when the timers keep firing and every invocation of a
\* task settles: the setInterval callback and the retry timeouts run when
\* they are due, time goes on, and the remote call of a started task answers
TaskEventuallySettles(t) ==
  \E o \in LimiterOutcomes :
    AttemptSettles(t, o) /\ UNCHANGED <<bucketVars, splitVars, jobVars>>

Fairness ==
  /\ WF_vars(Tick)
  /\ WF_vars(Clock)
  /\ WF_vars(RetryTimer)
  /\ \A t \in 1..NumTasks : WF_vars(TaskEventuallySettles(t))

SpecLive == Init /\ [][Next]_vars /\ Fairness

\* the same limiter with the observer of the call rate switched on
InitQuota ==
  /\ RateLimiterInit(1..NumTasks, TRUE)
  /\ SplitUnused /\ JobUnused /\ BucketUnused

SpecQuota == InitQuota /\ [][Next]_vars

(* ---------------- the limiter under a burst of callers ----------------- *)
\* a new limiter and BurstTasks callers; the refill ticks are counted
InitBurst ==
  /\ availableTokens = maxConcurrent
  /\ RateLimiterIdle(1..BurstTasks, FALSE)
  /\ refillIn = RefillInterval
  /\ watchTicks = TRUE
  /\ SplitUnused
  /\ BucketUnused
  /\ JobUnused

\* the tasks of the burst succeed or fail with an error that is not retried
BurstOutcomes == {Ok, Failed(ErrNetwork)}

BurstTaskSettles ==
  \E t \in Tasks, o \in BurstOutcomes :
    AttemptSettles(t, o) /\ UNCHANGED <<bucketVars, splitVars, jobVars>>

NextBurst ==
  \/ CallerSchedules
  \/ Tick
  \/ BurstTaskSettles
  \/ Clock

SpecBurst == InitBurst /\ [][NextBurst]_vars

(* ------------- the limiter with retries, refill ticks counted ---------- *)
\* a new limiter and NumTasks callers; the refill ticks are counted
InitTicks ==
  /\ availableTokens = maxConcurrent
  /\ RateLimiterIdle(1..NumTasks, FALSE)
  /\ refillIn = RefillInterval
  /\ watchTicks = TRUE
  /\ SplitUnused
  /\ BucketUnused
  /\ JobUnused

SpecTicks == InitTicks /\ [][Next]_vars

(* ------------------- splitTextIntoChunks, step by step ----------------- *)
\* a call with a text and a limit longer than the enumerated ones
LongCall ==
  [text |-> <<"H", "e", "l", "l", "o", " ", "w", "o", "r", "l", "d", ".", " ",
              "F", "o", "o", " ", "b", "a", "r", " ", "b", "a", "z">>,
   maxLength |-> 14]

InitSplit ==
  /\ RateLimiterInit(1..NumTasks, FALSE)
  /\ JobUnused
  /\ BucketUnused
  /\ text \in TextsOver(Alphabet, MaxTextLen) \cup {LongCall.text}
  /\ maxLength \in 1..MaxMaxLength \cup {LongCall.maxLength}
  /\ chunks = <<>>
  /\ currentIndex = 0
  /\ splitPc = "loop"

\* one iteration of the while loop.  An iteration that leaves the cursor in
\* place repeats for ever; the model follows it until the array holds more
\* chunks than the text has characters.
SplitIterate ==
  /\ splitPc = "loop"
  /\ currentIndex < Len(text)
  /\ Len(chunks) <= Len(text)
  /\ LET endIndex == ChunkEndIndex(text, currentIndex, maxLength)
     IN /\ chunks' = Append(chunks, ChunkOf(text, currentIndex, endIndex))
        /\ currentIndex' = endIndex
  /\ UNCHANGED <<text, maxLength, splitPc, rlVars, jobVars, bucketVars>>

\* the loop condition fails: return chunks
SplitReturn ==
  /\ splitPc = "loop"
  /\ ~(currentIndex < Len(text))
  /\ splitPc' = "returned"
  /\ UNCHANGED <<text, maxLength, chunks, currentIndex, rlVars, jobVars,
                 bucketVars>>

NextSplit == SplitIterate \/ SplitReturn

SpecSplit == InitSplit /\ [][NextSplit]_vars

(* ------------------ POST /api/tts (sequential chunk loop) -------------- *)
\* the characters request texts and summaries are drawn from
ReqAlphabet == {"a", " ", "."}
ReqTexts == TextsOver(ReqAlphabet, MaxReqLen)
ApiKeys == {"", "sk-A"}
Summaries == TextsOver(ReqAlphabet, MaxSummaryLen)

\* outcomes of one synthesis call, and of the summarization call
TtsOutcomes ==
  {Ok, Failed(ErrRateLimit), Failed(ErrInvalidKey), Failed(ErrNetwork)}
SummaryOutcomes ==
  {[ok |-> TRUE, error |-> ErrNoMessage, summary |-> sm] : sm \in Summaries}
    \cup {[ok |-> FALSE, error |-> e, summary |-> <<>>] :
            e \in {ErrRateLimit, ErrNetwork}}

InitTts ==
  /\ availableTokens \in 0..maxConcurrent
  /\ RateLimiterIdle(1..MaxReqLen, FALSE)
  /\ watchTicks = FALSE
  /\ SplitUnused
  /\ BucketUnused
  /\ request = [text |-> <<>>, apiKey |-> "", useSummary |-> FALSE]
  /\ hpc = "idle"
  /\ openai = ""
  /\ processingStatus = IdleStatus
  /\ textToProcess = <<>> /\ jobChunks = <<>> /\ loopIndex = 0
  /\ audioBuffers = <<>>
  /\ response = NoResponse
  /\ summaryCalls = <<>>
  /\ completionOrder = <<>>
  /\ speechCalls = {}

\* errorType of the chunk catch block
TtsErrorType(e) ==
  IF ~e.hasResponse THEN "tts_processing_error"
  ELSE IF Includes(e.message, <<"Rate", "limit">>) THEN "rate_limit_error"
  ELSE IF Includes(e.message, <<"invalid_api_key">>) THEN "invalid_api_key"
  ELSE IF Includes(e.message, <<"insufficient_quota">>) THEN "insufficient_quota"
  ELSE "tts_processing_error"

\* errorCode of the chunk catch block: chunkError.response.status || 500
TtsErrorCode(e) == IF e.hasResponse /\ e.status # 0 THEN e.status ELSE 500

\* the chunk number reported with a zero-based loop index in place of i + 1
ReportedChunkZeroBased(i) == i

\* the chunk number reported for loop index i: i + 1
ReportedChunk(i) == i + 1

\* the response of the chunk catch block, for loop index i of n chunks
TtsChunkErrorResponse(e, i, n) ==
  [kind |-> "json", status |-> TtsErrorCode(e), audio |-> <<>>,
   fields |-> {"error", "details", "code", "type", "chunk", "totalChunks"},
   error |-> IF TtsErrorType(e) = "tts_processing_error"
               THEN "Error processing chunk" ELSE TtsErrorType(e),
   code |-> TtsErrorCode(e), type |-> TtsErrorType(e),
   chunk |-> ReportedChunk(i), totalChunks |-> n]

\* the response of the summary catch block
TtsSummaryErrorResponse(e) ==
  [kind |-> "json", status |-> 500, audio |-> <<>>,
   fields |-> {"error", "details", "code", "type"},
   error |-> "Error generating summary",
   code |-> IF e.hasResponse /\ e.status # 0 THEN e.status ELSE 500,
   type |-> "summary_generation_error", chunk |-> 0, totalChunks |-> 0]

\* the segmentation block when processingStatus.queuedChunks is not set
\* to chunks.length
TtsProcessChunksQueuesNothing(txt, ps) ==
  LET split == splitTextIntoChunks(txt, TtsLimit)
      n == Len(split.chunks)
  IN /\ textToProcess' = txt
     /\ IF split.diverges
          THEN /\ hpc' = "crashed"
               /\ processingStatus' = ps
               /\ UNCHANGED <<rlVars, jobChunks, loopIndex, audioBuffers,
                              response>>
          ELSE IF n = 0
            THEN /\ hpc' = "responded"
                 /\ processingStatus' =
                      [ps EXCEPT !.totalChunks = 0,
                                 !.currentStatus = Status("Complete", 0, 0)]
                 /\ jobChunks' = split.chunks
                 /\ response' = AudioResponse(concatAudioBuffers(<<>>))
                 /\ UNCHANGED <<rlVars, loopIndex, audioBuffers>>
            ELSE /\ hpc' = "awaiting"
                 /\ processingStatus' =
                      [ps EXCEPT !.totalChunks = n,
                                 !.currentStatus =
                                    Status("Processing chunk of", 1, n)]
                 /\ jobChunks' = split.chunks
                 /\ loopIndex' = 0
                 /\ audioBuffers' = <<>>
                 /\ Schedule(1)
                 /\ UNCHANGED response

\* from the call of splitTextIntoChunks to the first await of the chunk loop
\* (or to res.send when there is no chunk), in one synchronous block;
\* ps is processingStatus on entry
TtsProcessChunks(txt, ps) ==
  LET split == splitTextIntoChunks(txt, TtsLimit)
      n == Len(split.chunks)
  IN /\ textToProcess' = txt
     /\ IF split.diverges
          THEN /\ hpc' = "crashed"
               /\ processingStatus' = ps
               /\ UNCHANGED <<rlVars, jobChunks, loopIndex, audioBuffers,
                              response>>
          ELSE IF n = 0
            THEN /\ hpc' = "responded"
                 /\ processingStatus' =
                      [ps EXCEPT !.totalChunks = 0, !.queuedChunks = 0,
                                 !.currentStatus = Status("Complete", 0, 0)]
                 /\ jobChunks' = split.chunks
                 /\ response' = AudioResponse(concatAudioBuffers(<<>>))
                 /\ UNCHANGED <<rlVars, loopIndex, audioBuffers>>
            ELSE /\ hpc' = "awaiting"
                 /\ processingStatus' =
                      [ps EXCEPT !.totalChunks = n, !.queuedChunks = n,
                                 !.currentStatus =
                                    Status("Processing chunk of", 1, n)]
                 /\ jobChunks' = split.chunks
                 /\ loopIndex' = 0
                 /\ audioBuffers' = <<>>
                 /\ Schedule(1)
                 /\ UNCHANGED response

\* a start of job that sets the starting label and keeps the counters of
\* the job before
TtsRelabelStatus ==
  [processingStatus EXCEPT !.currentStatus = Status("Starting process", 0, 0)]

\* the status record a request that passed validation starts with
TtsResetStatus ==
  [currentStatus |-> Status("Starting process", 0, 0), summaryProgress |-> 0,
   totalChunks |-> 0, processedChunks |-> 0, queuedChunks |-> 0]

\* a request arrives, and the client is built and the status record reset
\* before the API key is looked at
TtsRequestResetsBeforeKeyCheck(txt, key, useSummary) ==
  /\ hpc = "idle"
  /\ request' = [text |-> txt, apiKey |-> key, useSummary |-> useSummary]
  /\ IF txt = <<>>
       THEN /\ response' = ErrorOnlyResponse(400, "No text provided")
            /\ hpc' = "responded"
            /\ UNCHANGED <<rlVars, openai, processingStatus, textToProcess,
                           jobChunks, loopIndex, audioBuffers, summaryCalls>>
       ELSE IF key = ""
         THEN /\ response' = ErrorOnlyResponse(400, "No API key provided")
              /\ hpc' = "responded"
              /\ openai' = key
              /\ processingStatus' = TtsResetStatus
              /\ UNCHANGED <<rlVars, textToProcess, jobChunks, loopIndex,
                             audioBuffers, summaryCalls>>
         ELSE /\ openai' = key
              /\ IF useSummary
                   THEN LET sent == IF Len(txt) > SummaryLimit
                                      THEN Substring(txt, 0, SummaryLimit)
                                      ELSE txt
                        IN /\ textToProcess' = sent
                           /\ summaryCalls' =
                                Append(summaryCalls, [text |-> sent, apiKey |-> key])
                           /\ processingStatus' =
                                [TtsResetStatus EXCEPT
                                   !.currentStatus =
                                      Status("Generating summary with GPT model", 0, 0),
                                   !.summaryProgress = 10]
                           /\ hpc' = "summarizing"
                           /\ UNCHANGED <<rlVars, jobChunks, loopIndex,
                                          audioBuffers, response>>
                   ELSE /\ TtsProcessChunks(txt, TtsResetStatus)
                        /\ UNCHANGED summaryCalls
  /\ UNCHANGED <<bucketVars, splitVars, completionOrder, speechCalls>>

\* a request arrives: the handler runs up to its first await or its response
TtsRequest(txt, key, useSummary) ==
  /\ hpc = "idle"
  /\ request' = [text |-> txt, apiKey |-> key, useSummary |-> useSummary]
  /\ IF txt = <<>>
       THEN /\ response' = ErrorOnlyResponse(400, "No text provided")
            /\ hpc' = "responded"
            /\ UNCHANGED <<rlVars, openai, processingStatus, textToProcess,
                           jobChunks, loopIndex, audioBuffers, summaryCalls>>
       ELSE IF key = ""
         THEN /\ response' = ErrorOnlyResponse(400, "No API key provided")
              /\ hpc' = "responded"
              /\ UNCHANGED <<rlVars, openai, processingStatus, textToProcess,
                             jobChunks, loopIndex, audioBuffers, summaryCalls>>
         ELSE /\ openai' = key
              /\ IF useSummary
                   THEN LET sent == IF Len(txt) > SummaryLimit
                                      THEN Substring(txt, 0, SummaryLimit)
                                      ELSE txt
                        IN /\ textToProcess' = sent
                           /\ summaryCalls' =
                                Append(summaryCalls, [text |-> sent, apiKey |-> key])
                           /\ processingStatus' =
                                [TtsResetStatus EXCEPT
                                   !.currentStatus =
                                      Status("Generating summary with GPT model", 0, 0),
                                   !.summaryProgress = 10]
                           /\ hpc' = "summarizing"
                           /\ UNCHANGED <<rlVars, jobChunks, loopIndex,
                                          audioBuffers, response>>
                   ELSE /\ TtsProcessChunks(txt, TtsResetStatus)
                        /\ UNCHANGED summaryCalls
  /\ UNCHANGED <<bucketVars, splitVars, completionOrder, speechCalls>>

\* the summarization call settles, and a failure is logged and the text
\* went in for the summary is converted instead
TtsSummarySettlesFallsBack(o) ==
  /\ hpc = "summarizing"
  /\ TtsProcessChunks(
       IF o.ok THEN o.summary ELSE textToProcess,
       [processingStatus EXCEPT
          !.summaryProgress = IF o.ok THEN 100 ELSE @,
          !.currentStatus =
             Status("Summary generation complete, preparing for TTS processing",
                    0, 0)])
  /\ UNCHANGED <<bucketVars, splitVars, request, openai, summaryCalls,
                 completionOrder, speechCalls>>

\* the summarization call settles, and the assignment textToProcess =
\* summary is missing: the handler goes on with the text it sent
TtsSummarySettlesKeepsText(o) ==
  /\ hpc = "summarizing"
  /\ IF o.ok
       THEN TtsProcessChunks(
              textToProcess,
              [processingStatus EXCEPT
                 !.summaryProgress = 100,
                 !.currentStatus =
                    Status("Summary generation complete, preparing for TTS processing", 0, 0)])
       ELSE /\ response' = TtsSummaryErrorResponse(o.error)
            /\ hpc' = "responded"
            /\ UNCHANGED <<rlVars, processingStatus, textToProcess, jobChunks,
                           loopIndex, audioBuffers>>
  /\ UNCHANGED <<bucketVars, splitVars, request, openai, summaryCalls,
                 completionOrder, speechCalls>>

\* the summarization call settles
TtsSummarySettles(o) ==
  /\ hpc = "summarizing"
  /\ IF o.ok
       THEN TtsProcessChunks(
              o.summary,
              [processingStatus EXCEPT
                 !.summaryProgress = 100,
                 !.currentStatus =
                    Status("Summary generation complete, preparing for TTS processing", 0, 0)])
       ELSE /\ response' = TtsSummaryErrorResponse(o.error)
            /\ hpc' = "responded"
            /\ UNCHANGED <<rlVars, processingStatus, textToProcess, jobChunks,
                           loopIndex, audioBuffers>>
  /\ UNCHANGED <<bucketVars, splitVars, request, openai, summaryCalls,
                 completionOrder, speechCalls>>

\* an invocation of the awaited chunk's task settles; when that settles the
\* promise of schedule, the handler's continuation is the next thing to run
TtsAttemptSettles(t, o) ==
  /\ hpc = "awaiting"
  /\ AttemptSettles(t, o)
  /\ hpc' = IF settled'[t].state = "pending" THEN hpc ELSE "resume"
  /\ UNCHANGED <<bucketVars, splitVars, request, openai, processingStatus,
                 textToProcess,
                 jobChunks, loopIndex, audioBuffers, response, summaryCalls,
                 completionOrder, speechCalls>>

\* the handler resumes after await apiRateLimiter.schedule(...): the rest of
\* the loop body and the next iteration up to its await, or the catch block,
\* or the code after the loop
TtsResume ==
  /\ hpc = "resume"
  /\ LET t == loopIndex + 1
         n == Len(jobChunks)
         bufs == Append(audioBuffers, Synthesize(jobChunks[t]))
         ps == [processingStatus EXCEPT
                  !.processedChunks = @ + 1, !.queuedChunks = @ - 1]
     IN IF settled[t].state = "fulfilled"
          THEN /\ audioBuffers' = bufs
               /\ loopIndex' = loopIndex + 1
               /\ IF loopIndex + 1 < n
                    THEN /\ processingStatus' =
                              [ps EXCEPT !.currentStatus =
                                 Status("Processing chunk of", loopIndex + 2, n)]
                         /\ Schedule(t + 1)
                         /\ hpc' = "awaiting"
                         /\ UNCHANGED response
                    ELSE /\ processingStatus' =
                              [ps EXCEPT !.currentStatus = Status("Complete", 0, 0)]
                         /\ response' = AudioResponse(concatAudioBuffers(bufs))
                         /\ hpc' = "responded"
                         /\ UNCHANGED rlVars
          ELSE /\ response' = TtsChunkErrorResponse(settled[t].error, loopIndex, n)
               /\ hpc' = "responded"
               /\ UNCHANGED <<rlVars, processingStatus, audioBuffers, loopIndex>>
  /\ UNCHANGED <<bucketVars, splitVars, request, openai, textToProcess,
                 jobChunks,
                 summaryCalls, completionOrder, speechCalls>>

\* timers and the clock run while the handler awaits something, never between
\* the settling of a promise and the continuation that awaits it; the time
\* before the request shows in the initial states, and a run is followed
\* until the handler has responded
JobAwaits == hpc \in {"summarizing", "awaiting"}

TtsRequestArrives ==
  \E txt \in ReqTexts, key \in ApiKeys, useSummary \in BOOLEAN :
    TtsRequest(txt, key, useSummary)
TtsSummaryReturns == \E o \in SummaryOutcomes : TtsSummarySettles(o)
TtsTaskSettles == \E t \in Tasks, o \in TtsOutcomes : TtsAttemptSettles(t, o)
TtsTick == JobAwaits /\ RefillToken
    /\ UNCHANGED <<bucketVars, splitVars, jobVars>>
TtsRetryTimer ==
  JobAwaits /\ \E t \in Tasks : RetryFires(t)
      /\ UNCHANGED <<bucketVars, splitVars, jobVars>>
TtsClock == JobAwaits /\ TimePasses
    /\ UNCHANGED <<bucketVars, splitVars, jobVars>>

NextTts ==
  \/ TtsRequestArrives
  \/ TtsSummaryReturns
  \/ TtsTaskSettles
  \/ TtsResume
  \/ TtsTick
  \/ TtsRetryTimer
  \/ TtsClock

SpecTts == InitTts /\ [][NextTts]_vars

\* /api/tts with useSummary: true; one request text is longer than the
\* summarizer's input limit
LongRequest ==
  [text |-> <<"O", "n", "e", ".", " ", "T", "w", "o", ".">>]

TtsSummaryRequestArrives ==
  \E txt \in ReqTexts \cup {LongRequest.text}, key \in ApiKeys :
    TtsRequest(txt, key, TRUE)

NextTtsSummary ==
  \/ TtsSummaryRequestArrives
  \/ TtsSummaryReturns
  \/ TtsTaskSettles
  \/ TtsResume
  \/ TtsTick
  \/ TtsRetryTimer
  \/ TtsClock

SpecTtsSummary == InitTts /\ [][NextTtsSummary]_vars

\* /api/tts with the provider's rate-limit errors in both wordings
RateLimitOutcomes == {Ok, Failed(ErrRateLimit), Failed(ErrRateLimitExceeded)}

TtsTaskSettlesRateLimited ==
  \E t \in Tasks, o \in RateLimitOutcomes : TtsAttemptSettles(t, o)

NextTtsRateLimited ==
  \/ TtsRequestArrives
  \/ TtsSummaryReturns
  \/ TtsTaskSettlesRateLimited
  \/ TtsResume
  \/ TtsTick
  \/ TtsRetryTimer
  \/ TtsClock

SpecTtsRateLimited == InitTts /\ [][NextTtsRateLimited]_vars

\* the status record an earlier job has left behind: a job of two chunks,
\* made from a summary, whose second chunk failed (the chunk catch block
\* leaves the record as it is)
StatusOfFailedJob ==
  [currentStatus |-> Status("Processing chunk of", 2, 2),
   summaryProgress |-> 100, totalChunks |-> 2, processedChunks |-> 1,
   queuedChunks |-> 1]

\* the server after an earlier job: no call of that job is unsettled, the
\* client and the status record are as that job left them
InitTtsAfterJob ==
  /\ availableTokens \in 0..maxConcurrent
  /\ RateLimiterIdle(1..MaxReqLen, FALSE)
  /\ watchTicks = FALSE
  /\ SplitUnused
  /\ BucketUnused
  /\ request = [text |-> <<>>, apiKey |-> "", useSummary |-> FALSE]
  /\ hpc = "idle"
  /\ openai = "sk-A"
  /\ processingStatus = StatusOfFailedJob
  /\ textToProcess = <<>> /\ jobChunks = <<>> /\ loopIndex = 0
  /\ audioBuffers = <<>>
  /\ response = NoResponse
  /\ summaryCalls = <<>>
  /\ completionOrder = <<>>
  /\ speechCalls = {}

SpecTtsAfterJob == InitTtsAfterJob /\ [][NextTts]_vars

(* ------------- POST /api/tts: several requests, overlapping ------------ *)
(* In these runs the handler's variables are functions of the request:     *)
(* request[j], hpc[j], textToProcess[j], jobChunks[j], loopIndex[j],       *)
(* audioBuffers[j], response[j] belong to the j-th request, and hpc[j]     *)
(* also names the promise the handler awaits.  The limiter, the client     *)
(* openai and processingStatus are the module's, shared by all requests.   *)
Jobs == 1..NumJobs
JobTexts == TextsOver({"a"}, MaxJobLen)
JobOutcomes == {Ok, Failed(ErrNetwork)}
JobSummaryOutcomes ==
  {[ok |-> TRUE, error |-> ErrNoMessage, summary |-> <<"a">>],
   [ok |-> FALSE, error |-> ErrNetwork, summary |-> <<>>]}

\* where a handler stands; promise is the caller of schedule whose promise
\* it awaits (0: none)
At(at) == [at |-> at, promise |-> 0]
Awaiting(t) == [at |-> "awaiting", promise |-> t]

\* the next caller of schedule: callers are numbered in the order of calls
NextCaller ==
  CHOOSE t \in Tasks : pc[t] = "idle" /\ \A u \in Tasks : u < t => pc[u] # "idle"

\* the API keys of the requests: none, or one of two users' keys
JobKeys == ApiKeys \cup {"sk-B"}

\* the key of the client a synthesis call is made with when the task uses
\* the module-level client openai in place of a client of its own
ProcessTextSharedClient(apiKey, shared) == shared

\* the key of the client processText makes its call with: a client built
\* from its apiKey argument; shared is the module-level client
ProcessTextClient(apiKey, shared) == apiKey

\* the requests whose task was invoked in this step: the caller of schedule
\* a handler awaits has one invocation more
StartedNow ==
  {j \in Jobs : /\ hpc'[j].at = "awaiting"
                /\ invocations'[hpc'[j].promise]
                     > invocations[hpc'[j].promise]}

\* every task invoked in this step calls processText(chunks[i], apiKey) with
\* the apiKey of its handler
RecordSpeechCalls ==
  speechCalls' =
    speechCalls \cup
      {[job |-> j,
        apiKey |-> ProcessTextClient(request'[j].apiKey, openai')] :
         j \in StartedNow}

InitJobs ==
  /\ availableTokens \in 0..maxConcurrent
  /\ RateLimiterIdle(1..(NumJobs * MaxJobLen), FALSE)
  /\ watchTicks = FALSE
  /\ SplitUnused
  /\ BucketUnused
  /\ request = [j \in Jobs |-> [text |-> <<>>, apiKey |-> "", useSummary |-> FALSE]]
  /\ hpc = [j \in Jobs |-> At("idle")]
  /\ openai = ""
  /\ processingStatus = IdleStatus
  /\ textToProcess = [j \in Jobs |-> <<>>]
  /\ jobChunks = [j \in Jobs |-> <<>>]
  /\ loopIndex = [j \in Jobs |-> 0]
  /\ audioBuffers = [j \in Jobs |-> <<>>]
  /\ response = [j \in Jobs |-> NoResponse]
  /\ summaryCalls = <<>>
  /\ completionOrder = <<>>
  /\ speechCalls = {}

\* request j: from the call of splitTextIntoChunks to the first await of the
\* chunk loop (or to res.send when there is no chunk); ps is processingStatus
\* on entry
JobProcessChunks(j, txt, ps) ==
  LET split == splitTextIntoChunks(txt, TtsLimit)
      n == Len(split.chunks)
  IN /\ textToProcess' = [textToProcess EXCEPT ![j] = txt]
     /\ IF split.diverges
          THEN /\ hpc' = [hpc EXCEPT ![j] = At("crashed")]
               /\ processingStatus' = ps
               /\ UNCHANGED <<rlVars, jobChunks, loopIndex, audioBuffers,
                              response>>
          ELSE IF n = 0
            THEN /\ hpc' = [hpc EXCEPT ![j] = At("responded")]
                 /\ processingStatus' =
                      [ps EXCEPT !.totalChunks = 0, !.queuedChunks = 0,
                                 !.currentStatus = Status("Complete", 0, 0)]
                 /\ jobChunks' = [jobChunks EXCEPT ![j] = split.chunks]
                 /\ response' = [response EXCEPT
                                   ![j] = AudioResponse(concatAudioBuffers(<<>>))]
                 /\ UNCHANGED <<rlVars, loopIndex, audioBuffers>>
            ELSE /\ hpc' = [hpc EXCEPT ![j] = Awaiting(NextCaller)]
                 /\ processingStatus' =
                      [ps EXCEPT !.totalChunks = n, !.queuedChunks = n,
                                 !.currentStatus =
                                    Status("Processing chunk of", 1, n)]
                 /\ jobChunks' = [jobChunks EXCEPT ![j] = split.chunks]
                 /\ loopIndex' = [loopIndex EXCEPT ![j] = 0]
                 /\ audioBuffers' = [audioBuffers EXCEPT ![j] = <<>>]
                 /\ Schedule(NextCaller)
                 /\ UNCHANGED response

\* no handler is about to resume: a continuation runs before any other event
NoResume == \A j \in Jobs : hpc[j].at # "resume"

\* request j arrives: its handler runs up to its first await or its response
JobRequest(j, txt, key, useSummary) ==
  /\ NoResume
  /\ hpc[j].at = "idle"
  /\ \A i \in Jobs : i < j => hpc[i].at # "idle"
  /\ request' = [request EXCEPT
                   ![j] = [text |-> txt, apiKey |-> key,
                           useSummary |-> useSummary]]
  /\ IF txt = <<>> \/ key = ""
       THEN /\ response' =
                 [response EXCEPT
                    ![j] = ErrorOnlyResponse(
                             400, IF txt = <<>> THEN "No text provided"
                                                ELSE "No API key provided")]
            /\ hpc' = [hpc EXCEPT ![j] = At("responded")]
            /\ UNCHANGED <<rlVars, openai, processingStatus, textToProcess,
                           jobChunks, loopIndex, audioBuffers, summaryCalls>>
       ELSE /\ openai' = key
            /\ IF useSummary
                 THEN LET sent == IF Len(txt) > SummaryLimit
                                    THEN Substring(txt, 0, SummaryLimit)
                                    ELSE txt
                      IN /\ textToProcess' = [textToProcess EXCEPT ![j] = sent]
                         /\ summaryCalls' =
                              Append(summaryCalls, [text |-> sent, apiKey |-> key])
                         /\ processingStatus' =
                              [TtsResetStatus EXCEPT
                                 !.currentStatus =
                                    Status("Generating summary with GPT model", 0, 0),
                                 !.summaryProgress = 10]
                         /\ hpc' = [hpc EXCEPT ![j] = At("summarizing")]
                         /\ UNCHANGED <<rlVars, jobChunks, loopIndex,
                                        audioBuffers, response>>
                 ELSE /\ JobProcessChunks(j, txt, TtsResetStatus)
                      /\ UNCHANGED summaryCalls
  /\ UNCHANGED <<bucketVars, splitVars, completionOrder>>
  /\ RecordSpeechCalls

\* the summarization call of request j settles
JobSummarySettles(j, o) ==
  /\ NoResume
  /\ hpc[j].at = "summarizing"
  /\ IF o.ok
       THEN JobProcessChunks(
              j, o.summary,
              [processingStatus EXCEPT
                 !.summaryProgress = 100,
                 !.currentStatus =
                    Status("Summary generation complete, preparing for TTS processing", 0, 0)])
       ELSE /\ response' = [response EXCEPT
                              ![j] = TtsSummaryErrorResponse(o.error)]
            /\ hpc' = [hpc EXCEPT ![j] = At("responded")]
            /\ UNCHANGED <<rlVars, processingStatus, textToProcess, jobChunks,
                           loopIndex, audioBuffers>>
  /\ UNCHANGED <<bucketVars, splitVars, request, openai, summaryCalls,
                 completionOrder>>
  /\ RecordSpeechCalls

\* an invocation of caller t's task settles; when that settles the promise
\* of schedule, the continuation of the handler that awaits it runs next
JobAttemptSettles(t, o) ==
  /\ NoResume
  /\ AttemptSettles(t, o)
  /\ hpc' = [j \in Jobs |->
               IF hpc[j] = Awaiting(t) /\ settled'[t].state # "pending"
                 THEN [at |-> "resume", promise |-> t]
                 ELSE hpc[j]]
  /\ UNCHANGED <<bucketVars, splitVars, request, openai, processingStatus,
                 textToProcess, jobChunks, loopIndex, audioBuffers, response,
                 summaryCalls, completionOrder, speechCalls>>

\* the handler of request j resumes after await apiRateLimiter.schedule(...)
JobResume(j) ==
  /\ hpc[j].at = "resume"
  /\ LET t == hpc[j].promise
         i == loopIndex[j]
         n == Len(jobChunks[j])
         bufs == Append(audioBuffers[j], Synthesize(jobChunks[j][i + 1]))
         ps == [processingStatus EXCEPT
                  !.processedChunks = @ + 1, !.queuedChunks = @ - 1]
     IN IF settled[t].state = "fulfilled"
          THEN /\ audioBuffers' = [audioBuffers EXCEPT ![j] = bufs]
               /\ loopIndex' = [loopIndex EXCEPT ![j] = i + 1]
               /\ IF i + 1 < n
                    THEN /\ processingStatus' =
                              [ps EXCEPT !.currentStatus =
                                 Status("Processing chunk of", i + 2, n)]
                         /\ Schedule(NextCaller)
                         /\ hpc' = [hpc EXCEPT ![j] = Awaiting(NextCaller)]
                         /\ UNCHANGED response
                    ELSE /\ processingStatus' =
                              [ps EXCEPT !.currentStatus = Status("Complete", 0, 0)]
                         /\ response' =
                              [response EXCEPT
                                 ![j] = AudioResponse(concatAudioBuffers(bufs))]
                         /\ hpc' = [hpc EXCEPT ![j] = At("responded")]
                         /\ UNCHANGED rlVars
          ELSE /\ response' =
                    [response EXCEPT
                       ![j] = TtsChunkErrorResponse(settled[t].error, i, n)]
               /\ hpc' = [hpc EXCEPT ![j] = At("responded")]
               /\ UNCHANGED <<rlVars, processingStatus, audioBuffers, loopIndex>>
  /\ UNCHANGED <<bucketVars, splitVars, request, openai, textToProcess,
                 jobChunks, summaryCalls, completionOrder>>
  /\ RecordSpeechCalls

\* timers and the clock run while some handler awaits something
JobsAwait ==
  /\ NoResume
  /\ \E j \in Jobs : hpc[j].at \in {"summarizing", "awaiting"}

JobArrives ==
  \E j \in Jobs, txt \in JobTexts, key \in JobKeys, useSummary \in BOOLEAN :
    JobRequest(j, txt, key, useSummary)
JobSummaryReturns ==
  \E j \in Jobs, o \in JobSummaryOutcomes : JobSummarySettles(j, o)
JobTaskSettles == \E t \in Tasks, o \in JobOutcomes : JobAttemptSettles(t, o)
JobResumes == \E j \in Jobs : JobResume(j)
JobsTick ==
  /\ JobsAwait
  /\ RefillToken
  /\ UNCHANGED <<bucketVars, splitVars, request, hpc, openai,
                 processingStatus, textToProcess, jobChunks, loopIndex,
                 audioBuffers, response, summaryCalls, completionOrder>>
  /\ RecordSpeechCalls
JobsClock ==
  JobsAwait /\ TimePasses /\ UNCHANGED <<bucketVars, splitVars, jobVars>>

NextJobs ==
  \/ JobArrives
  \/ JobSummaryReturns
  \/ JobTaskSettles
  \/ JobResumes
  \/ JobsTick
  \/ JobsClock

SpecJobs == InitJobs /\ [][NextJobs]_vars

(* -------- POST /text-to-speech (Promise.all over processChunk) --------- *)
T2sAlphabet == {"a", " ", "\n", "."}
T2sTexts == TextsOver(T2sAlphabet, MaxT2sLen)
T2sOutcomes == {Ok, Failed(ErrRateLimit), Failed(ErrNetwork)}

\* text.replace(/\n/g, ' ')
ReplaceNewlines(s) == [j \in 1..Len(s) |-> IF s[j] = "\n" THEN " " ELSE s[j]]

\* String.prototype.trim
RECURSIVE TrimStart(_)
TrimStart(s) ==
  IF s # <<>> /\ IsSpace(Head(s)) THEN TrimStart(Tail(s)) ELSE s
RECURSIVE TrimEnd(_)
TrimEnd(s) ==
  IF s # <<>> /\ IsSpace(s[Len(s)]) THEN TrimEnd(SubSeq(s, 1, Len(s) - 1)) ELSE s
Trim(s) == TrimEnd(TrimStart(s))

InitT2s ==
  /\ availableTokens \in 0..maxConcurrent
  /\ RateLimiterIdle(1..MaxReqLen, FALSE)
  /\ watchTicks = FALSE
  /\ SplitUnused
  /\ BucketUnused
  /\ request = [text |-> <<>>, apiKey |-> "", useSummary |-> FALSE]
  /\ hpc = "idle"
  /\ openai = "env"
  /\ processingStatus = IdleStatus
  /\ textToProcess = <<>> /\ jobChunks = <<>> /\ loopIndex = 0
  /\ audioBuffers = <<>>
  /\ response = NoResponse
  /\ summaryCalls = <<>>
  /\ completionOrder = <<>>
  /\ speechCalls = {}

\* the array Promise.all would resolve with if it took the values in the
\* order in which the promises were fulfilled
ValuesInCompletionOrder(values, order) ==
  [k \in 1..Len(values) |-> values[order[k]]]

\* the array Promise.all resolves with: the value of the k-th promise at
\* position k, whatever the order of fulfilment
PromiseAllValues(values, order) == [k \in 1..Len(values) |-> values[k]]

\* chunks.map(processChunk) with n chunks, in one synchronous block: n calls
\* of executeWithRateLimit in index order; the first calls take the available
\* tokens and start their task, the others are queued
ScheduleAll(n) ==
  LET k == Min(availableTokens, n)
  IN /\ availableTokens' = availableTokens - k
     /\ activeRequests' = activeRequests + k
     /\ pendingRequests' =
          pendingRequests \o [j \in 1..(n - k) |-> k + j]
     /\ pc' = [t \in Tasks |->
                 IF t <= k THEN "running" ELSE IF t <= n THEN "queued" ELSE pc[t]]
     /\ path' = [t \in Tasks |->
                   IF t <= k THEN "immediate"
                   ELSE IF t <= n THEN "queued" ELSE path[t]]
     /\ invocations' = [t \in Tasks |-> IF t <= k THEN 1 ELSE invocations[t]]
     /\ recentStarts' = IF watchStarts
                          THEN [recentStarts EXCEPT ![0] = @ + k]
                          ELSE recentStarts
     /\ UNCHANGED <<settled, outcomes, refillIn, retryIn, watchStarts,
                 watchTicks, ticks>>

\* res.status(500).json({ error: 'Failed to convert text to speech' })
T2sErrorResponse == ErrorOnlyResponse(500, "Failed to convert text to speech")

\* from splitTextIntoChunks to await Promise.all (or, without chunks, to
\* res.send), in one synchronous block; ps is processingStatus on entry
T2sDispatch(txt, ps) ==
  LET split == splitTextIntoChunks(txt, TtsLimit)
      n == Len(split.chunks)
      k == Min(availableTokens, n)
  IN /\ textToProcess' = txt
     /\ IF split.diverges
          THEN /\ hpc' = "crashed"
               /\ processingStatus' = ps
               /\ UNCHANGED <<rlVars, jobChunks, audioBuffers, response>>
          ELSE IF n = 0
            THEN /\ hpc' = "responded"
                 /\ processingStatus' =
                      [ps EXCEPT !.totalChunks = 0,
                                 !.currentStatus = Status("Complete", 0, 0)]
                 /\ jobChunks' = split.chunks
                 /\ audioBuffers' = <<>>
                 /\ response' = AudioResponse(concatAudioBuffers(<<>>))
                 /\ UNCHANGED rlVars
            ELSE /\ hpc' = "awaiting"
                 /\ processingStatus' =
                      [ps EXCEPT
                         !.totalChunks = n,
                         !.queuedChunks = @ + n,
                         !.currentStatus =
                            IF k > 0
                              THEN Status("Processing chunk /", k, n)
                              ELSE Status("Preparing to process chunks", n, 0)]
                 /\ jobChunks' = split.chunks
                 /\ ScheduleAll(n)
                 /\ UNCHANGED <<audioBuffers, response>>

\* the status record every request starts with
T2sResetStatus ==
  [currentStatus |-> Status("Starting text-to-speech processing", 0, 0),
   summaryProgress |-> 0, totalChunks |-> 0, processedChunks |-> 0,
   queuedChunks |-> 0]

\* a request arrives: the handler runs up to its first await or its response
T2sRequest(txt, useSummary) ==
  /\ hpc = "idle"
  /\ LET normalized == Trim(ReplaceNewlines(txt))
     IN /\ request' = [text |-> normalized, apiKey |-> "",
                       useSummary |-> useSummary]
        /\ IF useSummary
             THEN LET sent == IF Len(normalized) > SummaryLimit
                                THEN Substring(normalized, 0, SummaryLimit)
                                ELSE normalized
                  IN /\ textToProcess' = normalized
                     /\ summaryCalls' =
                          Append(summaryCalls, [text |-> sent, apiKey |-> openai])
                     /\ processingStatus' =
                          [T2sResetStatus EXCEPT
                             !.currentStatus =
                                Status("Generating summary with GPT model", 0, 0),
                             !.summaryProgress = 30]
                     /\ hpc' = "summarizing"
                     /\ UNCHANGED <<rlVars, jobChunks, audioBuffers, response>>
             ELSE /\ T2sDispatch(normalized, T2sResetStatus)
                  /\ UNCHANGED summaryCalls
  /\ UNCHANGED <<bucketVars, splitVars, openai, loopIndex, completionOrder,
                 speechCalls>>

\* the summarization call settles
T2sSummarySettles(o) ==
  /\ hpc = "summarizing"
  /\ IF o.ok
       THEN T2sDispatch(
              o.summary,
              [processingStatus EXCEPT
                 !.summaryProgress = 100,
                 !.currentStatus =
                    Status("Summary generation complete, preparing for TTS processing", 0, 0)])
       ELSE /\ response' = T2sErrorResponse
            /\ hpc' = "responded"
            /\ processingStatus' =
                 [processingStatus EXCEPT
                    !.currentStatus =
                       Status("Error: Failed to generate summary", 0, 0)]
            /\ UNCHANGED <<rlVars, textToProcess, jobChunks, audioBuffers>>
  /\ UNCHANGED <<bucketVars, splitVars, request, openai, loopIndex,
                 summaryCalls,
                 completionOrder, speechCalls>>

\* processingStatus after the task function of processChunk has settled
\* with outcome o: its try block, or its catch block
AfterChunkAttempt(ps, o) ==
  IF o.ok
    THEN [ps EXCEPT
            !.processedChunks = @ + 1,
            !.queuedChunks = @ - 1,
            !.currentStatus =
               Status3("Processed / chunks, in queue", ps.processedChunks + 1,
                       ps.totalChunks, ps.queuedChunks - 1)]
    ELSE [ps EXCEPT !.queuedChunks = @ - 1]

\* an invocation of chunk t's task settles with outcome o: the rest of the
\* task function, the limiter's handling, and, when that settles Promise.all,
\* the rest of the handler
T2sAttemptSettles(t, o) ==
  /\ AttemptSettles(t, o)
  /\ LET ps == AfterChunkAttempt(processingStatus, o)
         n == Len(jobChunks)
         order == IF settled'[t].state = "fulfilled"
                    THEN Append(completionOrder, t) ELSE completionOrder
         values == [k \in 1..n |-> Synthesize(jobChunks[k])]
     IN /\ completionOrder' = order
        /\ UNCHANGED speechCalls
        /\ IF hpc = "awaiting" /\ settled'[t].state = "rejected"
             THEN /\ hpc' = "responded"
                  /\ processingStatus' =
                       [ps EXCEPT !.currentStatus = Status("Error: message", 0, 0)]
                  /\ response' = T2sErrorResponse
                  /\ UNCHANGED audioBuffers
             ELSE IF /\ hpc = "awaiting"
                     /\ \A u \in 1..n : settled'[u].state = "fulfilled"
               THEN /\ hpc' = "responded"
                    /\ audioBuffers' = PromiseAllValues(values, order)
                    /\ processingStatus' =
                         [ps EXCEPT !.currentStatus = Status("Complete", 0, 0)]
                    /\ response' = AudioResponse(concatAudioBuffers(audioBuffers'))
               ELSE /\ processingStatus' = ps
                    /\ UNCHANGED <<hpc, audioBuffers, response>>
  /\ UNCHANGED <<bucketVars, splitVars, request, openai, textToProcess,
                 jobChunks,
                 loopIndex, summaryCalls>>

\* the first statements of the task function of processChunk for chunk t
StatusAtStart(ps, t) ==
  [ps EXCEPT !.currentStatus = Status("Processing chunk /", t, Len(jobChunks))]

\* a refill tick; a request it takes from the queue starts its task
T2sRefillToken ==
  /\ RefillToken
  /\ processingStatus' =
       IF Len(pendingRequests) > 0 /\ availableTokens < maxConcurrent
         THEN StatusAtStart(processingStatus, Head(pendingRequests))
         ELSE processingStatus
  /\ UNCHANGED <<bucketVars, splitVars, request, hpc, openai, textToProcess,
                 jobChunks,
                 loopIndex, audioBuffers, response, summaryCalls,
                 completionOrder, speechCalls>>

\* the retry delay of chunk t is over: its task function is called again
T2sRetryFires(t) ==
  /\ RetryFires(t)
  /\ processingStatus' = StatusAtStart(processingStatus, t)
  /\ UNCHANGED <<bucketVars, splitVars, request, hpc, openai, textToProcess,
                 jobChunks,
                 loopIndex, audioBuffers, response, summaryCalls,
                 completionOrder, speechCalls>>

\* time runs while the handler awaits something or a task is queued, in
\* flight or waiting for its retry
T2sBusy ==
  \/ hpc \in {"summarizing", "awaiting"}
  \/ \E t \in Tasks : pc[t] \in {"queued", "running", "waiting", "retrying"}

T2sRequestArrives ==
  \E txt \in T2sTexts, useSummary \in BOOLEAN : T2sRequest(txt, useSummary)
T2sSummaryReturns == \E o \in SummaryOutcomes : T2sSummarySettles(o)
T2sTaskSettles == \E t \in Tasks, o \in T2sOutcomes : T2sAttemptSettles(t, o)
T2sTick == T2sBusy /\ T2sRefillToken
T2sRetryTimer == \E t \in Tasks : T2sRetryFires(t)
T2sClock == T2sBusy /\ TimePasses
    /\ UNCHANGED <<bucketVars, splitVars, jobVars>>

NextT2s ==
  \/ T2sRequestArrives
  \/ T2sSummaryReturns
  \/ T2sTaskSettles
  \/ T2sTick
  \/ T2sRetryTimer
  \/ T2sClock

SpecT2s == InitT2s /\ [][NextT2s]_vars

(* ============================ the claims =============================== *)
RECURSIVE SumUpTo(_, _)
SumUpTo(f, n) == IF n < 0 THEN 0 ELSE f[n] + SumUpTo(f, n - 1)

\* tasks that were started and whose schedule call has not settled
Unsettled == {t \in Tasks : pc[t] \in {"running", "waiting", "retrying"}}

\* the outcome "fails with a rate-limit error" / "fails with another error"
RateLimited == Failed(ErrRateLimit)
FailsOtherwise(o) ==
  /\ ~o.ok
  /\ ~Includes(o.error.message, <<"Rate", "limit", "reached">>)

\* C1: in every reachable state the number of tasks started and not yet
\* settled, which is the activeRequests counter, is at most maxConcurrent.
C1_ActiveAtMostMaxConcurrent ==
  /\ activeRequests = Cardinality(Unsettled)
  /\ activeRequests <= maxConcurrent

\* C2: in any window of one minute at most tokensPerMinute (3) invocations of
\* scheduled task functions, first attempts and retries together, are started.
C2_AtMostThreeStartsPerMinute ==
  SumUpTo(recentStarts, Minute - 1) <= tokensPerMinute

\* C3: a task whose every invocation fails with the rate-limit error is
\* invoked exactly twice, then its promise rejects with the retry's error; it
\* is never invoked a third time.  (Until the retry has failed the promise is
\* pending.)
C3_RetriedExactlyOnce ==
  \A t \in Tasks :
    (\A k \in 1..Len(outcomes[t]) : outcomes[t][k] = RateLimited) =>
      /\ invocations[t] <= 2
      /\ Len(outcomes[t]) <= 1 => settled[t] = Pending
      /\ Len(outcomes[t]) = 1 => pc[t] \in {"waiting", "retrying"}
      /\ Len(outcomes[t]) = 2 =>
           /\ invocations[t] = 2
           /\ pc[t] = "rejected"
           /\ settled[t] = Rejected(2, ErrRateLimit)

\* C3 witness: on each path a task failed twice with the rate-limit error and
\* its promise is rejected
C3_Witness ==
  \E t, u \in Tasks :
    /\ path[t] = "immediate" /\ path[u] = "queued"
    /\ outcomes[t] = <<RateLimited, RateLimited>> /\ pc[t] = "rejected"
    /\ outcomes[u] = <<RateLimited, RateLimited>> /\ pc[u] = "rejected"

\* C4: a task that fails with the rate-limit error on its first invocation
\* never has its promise rejected with that first error, and when the retry
\* succeeds the promise resolves with the retry's value.
C4_RetrySuccessResolves ==
  \A t \in Tasks :
    (Len(outcomes[t]) >= 1 /\ outcomes[t][1] = RateLimited) =>
      /\ ~(settled[t].state = "rejected" /\ settled[t].attempt = 1)
      /\ (Len(outcomes[t]) = 2 /\ outcomes[t][2] = Ok) =>
           (pc[t] = "resolved" /\ settled[t] = Fulfilled(2))

\* C4 witness: on each path a task failed once with the rate-limit error,
\* succeeded on the retry, and its promise is resolved
C4_Witness ==
  \E t, u \in Tasks :
    /\ path[t] = "immediate" /\ path[u] = "queued"
    /\ outcomes[t] = <<RateLimited, Ok>> /\ settled[t].state = "fulfilled"
    /\ outcomes[u] = <<RateLimited, Ok>> /\ settled[u].state = "fulfilled"

\* C5: a task whose first invocation fails with an error that is not a
\* rate-limit error is invoked exactly once and its promise rejects with that
\* same error.
C5_OtherErrorNotRetried ==
  \A t \in Tasks :
    (Len(outcomes[t]) >= 1 /\ FailsOtherwise(outcomes[t][1])) =>
      /\ invocations[t] = 1
      /\ Len(outcomes[t]) = 1
      /\ pc[t] = "rejected"
      /\ settled[t] = Rejected(1, outcomes[t][1].error)

\* C5 witness: on each path a task failed with another error and its promise
\* is rejected
C5_Witness ==
  \E t, u \in Tasks :
    /\ path[t] = "immediate" /\ path[u] = "queued"
    /\ outcomes[t] = <<Failed(ErrNetwork)>> /\ settled[t].state = "rejected"
    /\ outcomes[u] = <<Failed(ErrNoMessage)>> /\ settled[u].state = "rejected"

\* the audio of the job's segments, concatenated in segment-index order
AudioInIndexOrder ==
  Concat([k \in 1..Len(jobChunks) |-> Synthesize(jobChunks[k])])

\* C6: for a job whose synthesis calls all succeed, the audio returned is the
\* concatenation of the per-segment buffers in segment-index order, whatever
\* the order in which the calls completed.
C6_AudioInSegmentOrder ==
  response.kind = "audio" =>
    /\ \A k \in 1..Len(jobChunks) : settled[k].state = "fulfilled"
    /\ response.audio = AudioInIndexOrder

\* C6 witness: audio was returned for two different segments of which the
\* second completed first; one segment waited in the queue and one was retried
C6_Witness ==
  /\ response.kind = "audio"
  /\ Len(jobChunks) >= 2
  /\ jobChunks[1] # jobChunks[2]
  /\ completionOrder[1] = 2
  /\ \E t \in 1..Len(jobChunks) : path[t] = "queued"
  /\ \E t \in 1..Len(jobChunks) : invocations[t] = 2

\* C7: in /api/tts, when the synthesis of a segment has failed permanently no
\* audio is sent, and the response is a JSON error that names the failing
\* segment (counted from 1) and the total number of segments.
C7_SegmentFailureReported ==
  \A t \in Tasks :
    settled[t].state = "rejected" =>
      /\ response.kind # "audio"
      /\ hpc \in {"resume", "responded"}
      /\ hpc = "responded" =>
           /\ response.kind = "json"
           /\ response.status >= 400
           /\ response.audio = <<>>
           /\ {"chunk", "totalChunks"} \subseteq response.fields
           /\ response.chunk = t
           /\ response.totalChunks = Len(jobChunks)

\* C7 witness: the third of three segments failed after its retry, the two
\* before it had succeeded, and the error response is out
C7_Witness ==
  /\ hpc = "responded"
  /\ Len(jobChunks) = 3
  /\ Len(audioBuffers) = 2
  /\ settled[3].state = "rejected"
  /\ settled[3].attempt = 2
  /\ response.chunk = 3

\* the text is empty or consists of whitespace only
IsBlank(txt) == \A j \in 1..Len(txt) : IsSpace(txt[j])

\* C8: in /api/tts, for every request whose text is empty or whitespace only
\* the handler responds with the 400 "no text" error and makes no
\* summarization call, no synthesis call and no RateLimiter.schedule call.
C8_BlankTextRejected ==
  (hpc # "idle" /\ IsBlank(request.text)) =>
    /\ response.kind = "json"
    /\ response.status = 400
    /\ response.error = "No text provided"
    /\ summaryCalls = <<>>
    /\ \A t \in Tasks : pc[t] = "idle" /\ invocations[t] = 0

\* C9: joining the segments returned by splitTextIntoChunks, in order,
\* reproduces the text exactly.
C9_RoundTrip == splitPc = "returned" => Concat(chunks) = text

\* C9 witness: the function returned three or more segments, one of them
\* cut at a word boundary (it begins with the whitespace the cut left)
C9_Witness ==
  /\ splitPc = "returned"
  /\ Len(chunks) >= 3
  /\ \E k \in 2..Len(chunks) : chunks[k] # <<>> /\ IsSpace(chunks[k][1])
  /\ \E k \in 1..Len(chunks) : IsSentenceEnd(chunks[k][Len(chunks[k])])

\* C10: every iteration of splitTextIntoChunks emits a non-empty segment
\* (it strictly advances the cursor), so there are at most len(text)
\* iterations.
C10_EveryIterationAdvances ==
  splitPc \in {"loop", "returned"} =>
    /\ \A k \in 1..Len(chunks) : chunks[k] # <<>>
    /\ Len(chunks) <= Len(text)

\* the position in the text at which segment k starts
StartOf(k) == Len(Concat(SubSeq(chunks, 1, k - 1)))

\* C11: every segment produced by splitTextIntoChunks has length at most
\* maxLength, also a segment made by a hard break inside an unbroken token.
C11_SegmentAtMostMaxLength ==
  splitPc \in {"loop", "returned"} =>
    \A k \in 1..Len(chunks) : Len(chunks[k]) <= maxLength

\* C11 witness: the function returned after a hard break: a segment of
\* exactly maxLength characters without whitespace or sentence mark, cut
\* inside a token that goes on in the next segment
C11_Witness ==
  /\ splitPc = "returned"
  /\ maxLength >= 2
  /\ \E k \in 1..(Len(chunks) - 1) :
       /\ Len(chunks[k]) = maxLength
       /\ \A j \in 1..maxLength :
            ~IsSpace(chunks[k][j]) /\ ~IsSentenceEnd(chunks[k][j])
       /\ chunks[k + 1] # <<>>
       /\ ~IsSpace(chunks[k + 1][1])

\* the positions p of the window [from, to) of the text with text[p] in a
\* character class, and the greatest of a non-empty set of positions
SentenceMarksIn(from, to) ==
  {p \in from..(to - 1) : IsSentenceEnd(text[p + 1])}
WhitespaceIn(from, to) == {p \in from..(to - 1) : IsSpace(text[p + 1])}
Last(P) == CHOOSE p \in P : \A q \in P : q <= p

\* the cut the boundary preference prescribes for the window starting at
\* `from`, which ends before the end of the text
PreferredCut(from) ==
  LET to == from + maxLength
  IN IF SentenceMarksIn(from, to) # {}
       THEN Last(SentenceMarksIn(from, to)) + 1
       ELSE IF WhitespaceIn(from, to) # {}
              THEN Last(WhitespaceIn(from, to))
              ELSE to

\* C12: whenever the window [cursor, cursor + maxLength) ends before the end
\* of the text, the segment is cut right after the last sentence mark of the
\* window if there is one (also when a whitespace follows it in the window),
\* otherwise right before the last whitespace of the window if there is one,
\* otherwise at cursor + maxLength; "Hello world. Foo bar baz" with
\* maxLength 14 starts with the segment "Hello world.".
C12_BoundaryPreference ==
  splitPc \in {"loop", "returned"} =>
    /\ \A k \in 1..Len(chunks) :
         StartOf(k) + maxLength < Len(text) =>
           StartOf(k) + Len(chunks[k]) = PreferredCut(StartOf(k))
    /\ (text = LongCall.text /\ maxLength = LongCall.maxLength
          /\ chunks # <<>>) =>
         chunks[1] = SubSeq(LongCall.text, 1, 12)

\* C12 witness: the function returned from the long call with the first
\* segment cut after the sentence mark although a whitespace follows the
\* mark in the first window
C12_Witness ==
  /\ splitPc = "returned"
  /\ text = LongCall.text
  /\ maxLength = LongCall.maxLength
  /\ Len(chunks) >= 2
  /\ IsSentenceEnd(chunks[1][Len(chunks[1])])
  /\ WhitespaceIn(Len(chunks[1]), maxLength) # {}

\* C13 as stated: for every text shorter than maxLength, the empty text
\* included, splitTextIntoChunks returns exactly one segment, the whole text.
C13_ShortInputOneSegment ==
  (splitPc = "returned" /\ Len(text) < maxLength) => chunks = <<text>>

\* C13 amended: for every non-empty text shorter than maxLength,
\* splitTextIntoChunks returns exactly one segment, the whole text; for the
\* empty text it returns no segment.
C13_NonEmptyShortInputOneSegment ==
  (splitPc \in {"loop", "returned"} /\ Len(text) < maxLength) =>
    /\ Len(chunks) <= 1
    /\ chunks # <<>> => chunks = <<text>>
    /\ splitPc = "returned" => (chunks = <<>> <=> text = <<>>)

\* C13 witness: the function returned the whole of a short text that holds
\* a sentence mark and a whitespace as its only segment
C13_Witness ==
  /\ splitPc = "returned"
  /\ Len(text) < maxLength
  /\ \E j \in 1..Len(text) : IsSentenceEnd(text[j])
  /\ \E j \in 1..Len(text) : IsSpace(text[j])
  /\ chunks = <<text>>

\* the callers whose task has been started
Started == {t \in Tasks : invocations[t] > 0}

\* C14: tasks are started in the order in which their callers called
\* schedule (callers are numbered in that order): at every moment the
\* started callers are the first ones, the waiting ones wait in call order,
\* and no caller behind a waiting one has been started.
C14_StartedInCallOrder ==
  /\ \A u, t \in Tasks : (u < t /\ t \in Started) => u \in Started
  /\ \A j, k \in 1..Len(pendingRequests) :
       j < k => pendingRequests[j] < pendingRequests[k]
  /\ \A j \in 1..Len(pendingRequests) :
       /\ pendingRequests[j] \notin Started
       /\ \A t \in Tasks : t > pendingRequests[j] => t \notin Started

\* C14 witness: after completions of both kinds, a tick has just started
\* the caller at the head of the queue while two later callers wait
C14_Witness ==
  /\ pc[1] = "resolved"
  /\ pc[2] = "rejected"
  /\ path[3] = "queued"
  /\ pc[3] = "running"
  /\ pendingRequests = <<4, 5>>
  /\ ticks = 1

\* C20: from a full pool of maxConcurrent = 2 tokens, of the tasks
\* scheduled before the first refill tick at most 2 are started before that
\* tick and the others wait in pendingRequests, also when the first two
\* complete at once.
C20_BurstStartsAtMostTwo ==
  ticks = 0 =>
    /\ Cardinality(Started) <= maxConcurrent
    /\ \A t \in Tasks :
         (pc[t] # "idle" /\ t \notin Started) =>
           \E j \in 1..Len(pendingRequests) : pendingRequests[j] = t
    /\ (\A t \in Tasks : pc[t] # "idle") =>
         Len(pendingRequests) = BurstTasks - maxConcurrent

\* C20 witness: five callers before the first tick, the first two done, the
\* other three waiting
C20_Witness ==
  /\ ticks = 0
  /\ pc[1] = "resolved"
  /\ pc[2] = "resolved"
  /\ pendingRequests = <<3, 4, 5>>

\* C15: when the refill ticks keep occurring, every caller of schedule,
\* queued or not, has its task started and its promise settled in the end,
\* also after earlier tasks failed with a rate-limit error or another error.
C15_EveryCallerSettles ==
  \A t \in 1..NumTasks :
    (pc[t] # "idle") ~> (invocations[t] > 0 /\ settled[t].state # "pending")

\* C15 witness: the queued caller has been started and settled after one
\* earlier task was rejected on its retry and the other failed otherwise
C15_Witness ==
  /\ settled[1].state = "rejected" /\ settled[1].attempt = 2
  /\ settled[2].state = "rejected" /\ settled[2].attempt = 1
  /\ path[3] = "queued"
  /\ invocations[3] > 0
  /\ settled[3].state # "pending"

\* C16: in /api/tts, for a job of two or more segments, the task of every
\* segment has been submitted to RateLimiter.schedule by the time the handler
\* waits for a segment's result.
C16_AllSegmentsSubmittedBeforeWaiting ==
  (hpc = "awaiting" /\ Len(jobChunks) >= 2) =>
    \A t \in 1..Len(jobChunks) : pc[t] # "idle"

\* the currentStatus labels that name an error
IsErrorLabel(label) ==
  label \in {"Error: message", "Error: Failed to generate summary"}

\* C17: in /api/tts, whenever the handler has answered with an error,
\* processingStatus.currentStatus carries an error label.
C17_FailureSetsErrorStatus ==
  (hpc = "responded" /\ response.kind = "json") =>
    IsErrorLabel(processingStatus.currentStatus.label)

\* C18: in /api/tts, every response that is not a 200 has a JSON body with
\* the fields error, type and code, and its code is the HTTP status.
C18_ErrorBodyHasTypeAndCode ==
  (hpc = "responded" /\ response.status # 200) =>
    /\ response.kind = "json"
    /\ {"error", "type", "code"} \subseteq response.fields
    /\ response.code = response.status

\* the summarization call of the request was made and has not succeeded
\* (generateSummary sets summaryProgress to 100 when the call succeeds)
SummaryNotDone ==
  /\ hpc \notin {"idle", "unused"}
  /\ request.useSummary
  /\ summaryCalls # <<>>
  /\ processingStatus.summaryProgress # 100

\* C19: in /api/tts, when useSummary is set and the summarization call
\* fails, the handler answers with an error and the job makes no
\* segmentation, no RateLimiter.schedule call and no synthesis call.
C19_SummaryFailureAborts ==
  SummaryNotDone =>
    /\ hpc \in {"summarizing", "responded"}
    /\ jobChunks = <<>>
    /\ \A t \in Tasks : pc[t] = "idle" /\ invocations[t] = 0
    /\ hpc = "responded" =>
         /\ response.kind = "json"
         /\ response.status >= 400
         /\ response.audio = <<>>

\* C19 witness: the summarization call of a text of several characters
\* failed with a rate-limit error and the handler has answered
C19_Witness ==
  /\ SummaryNotDone
  /\ hpc = "responded"
  /\ Len(request.text) >= 2
  /\ response.type = "summary_generation_error"
  /\ response.code = 429

\* a step of the setInterval callback: the countdown to the next tick starts
\* anew
IsTickStep == refillIn = 0 /\ refillIn' = RefillInterval

\* C23: on every refill tick, if pendingRequests is non-empty its oldest
\* request is removed and started and availableTokens is unchanged; if
\* pendingRequests is empty availableTokens becomes
\* min(maxConcurrent, availableTokens + 1) and no task is started.
C23_RefillTokenStep ==
  [][IsTickStep =>
       IF pendingRequests # <<>>
         THEN /\ pendingRequests' = Tail(pendingRequests)
              /\ invocations' =
                   [invocations EXCEPT ![Head(pendingRequests)] = @ + 1]
              /\ pc'[Head(pendingRequests)] = "running"
              /\ availableTokens' = availableTokens
         ELSE /\ availableTokens' = Min(maxConcurrent, availableTokens + 1)
              /\ invocations' = invocations
              /\ pendingRequests' = <<>>]_vars

\* C23 witness: the second tick has started the second of three waiting
\* callers and the pool is still empty
C23_Witness ==
  /\ ticks = 2
  /\ refillIn = RefillInterval
  /\ path[4] = "queued"
  /\ pc[4] = "running"
  /\ pendingRequests = <<5>>
  /\ availableTokens = 0

\* C24: availableTokens is always between 0 and maxConcurrent.
C24_TokensWithinBounds ==
  availableTokens \in 0..maxConcurrent

\* C24 witness: every caller has taken a token or a tick, and later ticks
\* have filled the pool up again
C24_Witness ==
  /\ \A t \in Tasks : invocations[t] > 0
  /\ \E t \in Tasks : path[t] = "queued"
  /\ availableTokens = maxConcurrent
  /\ refillIn = 0

\* C25: when a scheduled task settles (with a value, with an error, or with
\* the error of its retry) availableTokens and pendingRequests are unchanged
\* and activeRequests goes down by one; availableTokens grows only in a
\* refill tick.
C25_NoTokenOnCompletion ==
  [][/\ settled' # settled =>
          /\ availableTokens' = availableTokens
          /\ pendingRequests' = pendingRequests
          /\ activeRequests' = activeRequests - 1
     /\ availableTokens' > availableTokens => IsTickStep]_vars

\* C25 witness: the first caller's call has settled on its retry while the
\* pool is empty and the third caller still waits
C25_Witness ==
  /\ settled[1].state # "pending"
  /\ settled[1].attempt = 2
  /\ availableTokens = 0
  /\ pendingRequests = <<3>>
  /\ activeRequests = 1

\* C26: activeRequests is never negative; it counts the started calls that
\* have not settled, so it is 0 whenever no started call is unsettled.
C26_ActiveCountsUnsettled ==
  /\ activeRequests >= 0
  /\ activeRequests = Cardinality(Unsettled)

\* C26 witness: three calls have settled, one with its first value, one
\* with an error, the queued one with the value of its retry, and the count
\* is back at 0
C26_Witness ==
  /\ settled[1].state = "rejected"
  /\ settled[2].state = "fulfilled" /\ settled[2].attempt = 1
  /\ path[3] = "queued"
  /\ settled[3].state = "fulfilled" /\ settled[3].attempt = 2
  /\ activeRequests = 0

\* C30: in /api/tts (one job at a time), whenever currentStatus is
\* 'Complete' the synthesis of every segment of the job has succeeded,
\* processedChunks = totalChunks and queuedChunks = 0.
C30_CompleteMeansAllSucceeded ==
  processingStatus.currentStatus.label = "Complete" =>
    /\ \A t \in 1..Len(jobChunks) :
         outcomes[t] # <<>> /\ outcomes[t][Len(outcomes[t])].ok
    /\ processingStatus.totalChunks = Len(jobChunks)
    /\ processingStatus.processedChunks = processingStatus.totalChunks
    /\ processingStatus.queuedChunks = 0

\* C30 witness: a job of three segments is 'Complete'; the second segment
\* succeeded on its retry
C30_Witness ==
  /\ processingStatus.currentStatus.label = "Complete"
  /\ Len(jobChunks) = 3
  /\ outcomes[2] = <<RateLimited, Ok>>
  /\ response.kind = "audio"

\* the terminal phases of a /text-to-speech job: 'Complete' and 'Error: ...'
IsTerminalStatus(st) ==
  st.label \in {"Complete", "Error: message",
                "Error: Failed to generate summary"}

\* C27: in /text-to-speech, once the handler has set currentStatus to
\* 'Complete' or to 'Error: ...', currentStatus is not changed again (no
\* further request arrives in these runs), even when other segments of a
\* failed job are still queued or in flight.
C27_TerminalStatusStays ==
  [][(hpc = "responded" /\ IsTerminalStatus(processingStatus.currentStatus))
       => processingStatus'.currentStatus = processingStatus.currentStatus]_vars

\* the request of the run has passed the validation of /api/tts
Accepted == hpc # "idle" /\ request.text # <<>> /\ request.apiKey # ""

\* C28: a request that is accepted after an earlier job resets the status
\* record before it does anything else: from its first await on, the
\* counters count this job only (nothing of the earlier job's totalChunks,
\* processedChunks, queuedChunks or summaryProgress is left) and
\* currentStatus is a label of this job.
C28_StatusResetAtJobStart ==
  Accepted =>
    /\ processingStatus.totalChunks = Len(jobChunks)
    /\ processingStatus.processedChunks = Len(audioBuffers)
    /\ processingStatus.queuedChunks = Len(jobChunks) - Len(audioBuffers)
    /\ processingStatus.summaryProgress \in
         (IF request.useSummary THEN {10, 100} ELSE {0})
    /\ hpc = "summarizing" =>
         /\ processingStatus.summaryProgress = 10
         /\ processingStatus.currentStatus =
              Status("Generating summary with GPT model", 0, 0)
    /\ hpc \in {"awaiting", "resume"} =>
         processingStatus.currentStatus =
           Status("Processing chunk of", loopIndex + 1, Len(jobChunks))
    /\ hpc = "crashed" =>
         processingStatus.currentStatus.label \in
           {"Starting process",
            "Summary generation complete, preparing for TTS processing"}

\* C28 witness: after the earlier job, a request without summary waits for
\* its second chunk of three
C28_Witness ==
  /\ Accepted
  /\ ~request.useSummary
  /\ hpc = "awaiting"
  /\ Len(jobChunks) = 3
  /\ processingStatus.processedChunks = 1
  /\ processingStatus.queuedChunks = 2
  /\ processingStatus.summaryProgress = 0

\* the tasks of the token-bucket variant that are in flight
QueueInFlight == {t \in QueueCallers : qpc[t] = "running"}

\* C21: in the token-bucket variant chunks are processed in parallel: while
\* the bucket holds a token, no enqueued task is kept waiting in the queue
\* behind a task that is in flight.
C21_ChunksInParallel ==
  (queue # <<>> /\ tokens >= 1) => QueueInFlight = {}

\* C22: in the token-bucket variant at most 3 tasks are started in any
\* 60-second window.
C22_AtMostThreeStartsPerMinute ==
  SumUpTo(startsAgo, BucketMinute - 1) <= tokensPerMinute

\* the queue runs one task at a time
OneTaskAtATime == Cardinality(QueueInFlight) <= 1

\* the second request has passed validation: it has reset the status record
SecondJobStarted ==
  hpc[2].at # "idle" /\ request[2].text # <<>> /\ request[2].apiKey # ""

\* C29: with overlapping jobs in /api/tts, once a second job has reset the
\* status record the record reflects that job only: its counters count the
\* second job's chunks, so processedChunks <= totalChunks and
\* queuedChunks >= 0 in every reachable state.
C29_RecordReflectsSecondJob ==
  /\ processingStatus.processedChunks <= processingStatus.totalChunks
  /\ processingStatus.queuedChunks >= 0
  /\ SecondJobStarted =>
       /\ processingStatus.processedChunks = Len(audioBuffers[2])
       /\ processingStatus.queuedChunks =
            processingStatus.totalChunks - Len(audioBuffers[2])

\* C34: whenever a request waits in pendingRequests the pool is empty, so a
\* new caller of schedule never takes the immediate path while another
\* caller is waiting.
C34_QueueImpliesEmptyPool ==
  /\ [](pendingRequests # <<>> => availableTokens = 0)
  /\ [][\A t \in Tasks :
          (pc[t] = "idle" /\ pc'[t] # "idle" /\ pendingRequests # <<>>)
            => pc'[t] = "queued"]_vars

\* C34 witness: with both tokens taken by running tasks, the fourth caller
\* arrived while the third was waiting and waits behind it
C34_Witness ==
  /\ ticks = 0
  /\ pc[1] = "running" /\ pc[2] = "running"
  /\ pendingRequests = <<3, 4>>
  /\ availableTokens = 0

\* the task invocations started so far: first attempts and retries
TotalInvocations == SumUpTo([t \in 0..Len(invocations) |->
                               IF t = 0 THEN 0 ELSE invocations[t]],
                            Len(invocations))

\* C35: the number of task invocations started so far (first attempts plus
\* retries) is at most maxConcurrent plus the number of refill ticks so far.
C35_InvocationsPaidByCapacity ==
  TotalInvocations <= maxConcurrent + ticks

\* C31: in /api/tts, whenever the response has type 'rate_limit_error', the
\* task of the failing segment was invoked exactly twice (the scheduler had
\* retried the error once).
C31_RateLimitErrorWasRetried ==
  (hpc = "responded" /\ response.type = "rate_limit_error") =>
    invocations[loopIndex + 1] = 2

\* the handler of the run has called splitTextIntoChunks
Segmented ==
  \/ hpc \in {"awaiting", "resume"}
  \/ hpc = "responded" /\ response.kind = "audio"
  \/ hpc = "responded" /\ "chunk" \in response.fields

\* C32: with useSummary, the text handed to the summarization call is at
\* most the summarizer's input limit long and is a prefix of the request
\* text (the whole text when that is not longer than the limit); the
\* segmenter then gets the returned summary (a text of at most MaxSummaryLen
\* characters), never the request text.
C32_SummaryInputTruncated ==
  /\ \A k \in 1..Len(summaryCalls) :
       LET sent == summaryCalls[k].text
       IN /\ Len(sent) <= SummaryLimit
          /\ Len(sent) <= Len(request.text)
          /\ sent = SubSeq(request.text, 1, Len(sent))
          /\ Len(request.text) <= SummaryLimit => sent = request.text
          /\ Len(request.text) > SummaryLimit => Len(sent) = SummaryLimit
  /\ (request.useSummary /\ Segmented) =>
       /\ textToProcess \in Summaries
       /\ Concat(jobChunks) = textToProcess

\* C32 witness: the long request text went to the summarizer cut to the
\* limit, and the summary that came back was converted
C32_Witness ==
  /\ request.text = LongRequest.text
  /\ Len(summaryCalls) = 1
  /\ Len(summaryCalls[1].text) = SummaryLimit
  /\ hpc = "responded" /\ response.kind = "audio"
  /\ Len(jobChunks) = 1

\* the callers of enqueue whose promise is settled
QueueSettled == {t \in QueueCallers : qpc[t] \in {"resolved", "rejected"}}

\* the steps a task of the queue can take: enqueued, started once (at once
\* or from the queue), settled once
QueueTaskStep(t) ==
  \/ qpc'[t] = qpc[t]
  \/ qpc[t] = "idle" /\ qpc'[t] \in {"queued", "running"}
  \/ qpc[t] = "queued" /\ qpc'[t] = "running"
  \/ qpc[t] = "running" /\ qpc'[t] \in {"resolved", "rejected"}

\* C33: in the token-bucket variant every task passed to enqueue is started
\* exactly once, tasks are started in enqueue order, each start takes exactly
\* one token, each settling settles the promise of that task only, and
\* every enqueue promise is settled in the end, also when earlier tasks were
\* rejected.
C33_QueueRunsEveryTaskOnce ==
  /\ [](queue = SelectSeq([k \in 1..Len(qpc) |-> k],
                          LAMBDA t : qpc[t] = "queued"))
  /\ [][\A t \in QueueCallers :
          /\ QueueTaskStep(t)
          /\ (qpc[t] # "running" /\ qpc'[t] = "running") =>
               /\ \A u \in QueueCallers :
                    u < t => qpc[u] \in {"running", "resolved", "rejected"}
               /\ \A u \in QueueCallers :
                    (u # t /\ qpc'[u] = "running") => qpc[u] = "running"
               /\ tokens' = Refill.tokens - 1
          /\ (qpc[t] = "running" /\ qpc'[t] # "running") =>
               \A u \in QueueCallers :
                 u # t => (u \in QueueSettled)' = (u \in QueueSettled)]_vars
  /\ \A t \in 1..QueueTasks :
       (qpc[t] # "idle") ~> (qpc[t] \in {"resolved", "rejected"})

\* C33 witness: the fourth task has been started from the queue and has
\* resolved after the three tasks before it were rejected
C33_Witness ==
  /\ qpc[1] = "rejected" /\ qpc[2] = "rejected" /\ qpc[3] = "rejected"
  /\ qpc[4] = "resolved"
  /\ queue = <<>>

\* C36: in a job of /api/tts that no other job overlaps, once the text is
\* segmented processedChunks + queuedChunks = totalChunks and
\* 0 <= processedChunks <= totalChunks, and processedChunks never decreases.
C36_CountersAddUp ==
  /\ [](Segmented =>
          /\ processingStatus.processedChunks + processingStatus.queuedChunks
               = processingStatus.totalChunks
          /\ processingStatus.totalChunks = Len(jobChunks)
          /\ processingStatus.processedChunks >= 0
          /\ processingStatus.processedChunks <= processingStatus.totalChunks)
  /\ [][processingStatus'.processedChunks
          >= processingStatus.processedChunks]_vars

\* C36 witness: a job of three chunks has stopped at its third chunk, with
\* two chunks processed and one still counted as queued
C36_Witness ==
  /\ hpc = "responded"
  /\ "chunk" \in response.fields
  /\ processingStatus.totalChunks = 3
  /\ processingStatus.processedChunks = 2
  /\ processingStatus.queuedChunks = 1

\* C37: in the status-tracking /text-to-speech variant, in a job that no other
\* job overlaps, queuedChunks is never negative and processedChunks +
\* queuedChunks never exceeds totalChunks, also when a chunk's task fails with
\* a rate-limit error and is invoked again by the retry.
C37_QueuedNeverNegative ==
  /\ processingStatus.queuedChunks >= 0
  /\ processingStatus.processedChunks + processingStatus.queuedChunks
       <= processingStatus.totalChunks

\* a step in which the /api/tts handler answers a request with 400
RejectedByValidation ==
  hpc = "idle" /\ hpc' = "responded" /\ response'.status = 400

\* C38: a request to /api/tts that validation rejects with 400 (no text, or
\* no API key) leaves processingStatus, the limiter's availableTokens,
\* activeRequests and pendingRequests and the module-level client as they
\* were, and makes no remote call.
C38_RejectedRequestChangesNothing ==
  [][RejectedByValidation =>
       /\ processingStatus' = processingStatus
       /\ availableTokens' = availableTokens
       /\ activeRequests' = activeRequests
       /\ pendingRequests' = pendingRequests
       /\ openai' = openai
       /\ summaryCalls' = summaryCalls
       /\ invocations' = invocations
       /\ pc' = pc]_vars

\* C38 witness: a request with text and without key has been answered 400
\* and the record and client of the job before are still in place
C38_Witness ==
  /\ hpc = "responded"
  /\ response.status = 400
  /\ request.text # <<>>
  /\ request.apiKey = ""
  /\ processingStatus = StatusOfFailedJob
  /\ openai = "sk-A"
  /\ availableTokens = 1

\* a step in which the handler of request j calls generateSummary
SummaryCalledFor(j) ==
  hpc[j].at = "idle" /\ hpc'[j].at = "summarizing"

\* C39: credentials are kept apart in /api/tts: also when requests with
\* different API keys overlap, every synthesis call and every summarization
\* call made for a request uses a client built with that request's own key,
\* whatever the module-level client holds at the time.
C39_CallsUseOwnKey ==
  /\ [](\A c \in speechCalls : c.apiKey = request[c.job].apiKey)
  /\ [][\A j \in Jobs :
          SummaryCalledFor(j) =>
            /\ Len(summaryCalls') = Len(summaryCalls) + 1
            /\ summaryCalls'[Len(summaryCalls')].apiKey = request'[j].apiKey]_vars

\* C39 witness: the first request's task, started from the queue, has made
\* its call with the first request's key while the second request, with
\* another key, is under way and the module-level client holds that key
C39_Witness ==
  /\ request[1].apiKey = "sk-A"
  /\ request[2].apiKey = "sk-B"
  /\ openai = "sk-B"
  /\ hpc[1].at = "awaiting"
  /\ path[hpc[1].promise] = "queued"
  /\ pc[hpc[1].promise] = "running"
  /\ hpc[2].at \in {"awaiting", "summarizing"}
  /\ [job |-> 1, apiKey |-> "sk-A"] \in speechCalls
  /\ Len(summaryCalls) = 1
  /\ summaryCalls[1].apiKey = "sk-B"

====
